---------------------------- MODULE Spec2Model ----------------------------
(***************************************************************************)
(* A model of the gnomAD v3 QC scripts:                                    *)
(*   variant_qc/random_forest.py        (variables rf, rf_fs)              *)
(*   create_release/make_var_annot_hists.py  (variable hist)               *)
(*   annotations/generate_qc_annotations.py  (variables ann, ann_fs, mt)   *)
(*   sample_qc/sample_qc.py             (variables sq, sq_fs, jn, ap)      *)
(*   calls of single functions of the scripts      (variable call)         *)
(*   overlapping --train_rf invocations             (variable tr)          *)
(*                                                                         *)
(* Every script is a command-line process: an invocation parses its        *)
(* arguments, runs main step by step against the tables persisted on       *)
(* storage, and ends.  Module-level values (FEATURES, ...) live in the     *)
(* process and are created anew by each invocation; only storage survives. *)
(*                                                                         *)
(* The engine's primitives are modelled by what the scripts rely on:       *)
(*   t.write(p, overwrite)   fails when p exists and overwrite is False;   *)
(*   t.checkpoint(p, overwrite, _read_if_exists)  reads p when it exists   *)
(*       and _read_if_exists, else writes as write does and reads back;    *)
(*   reading a path that does not exist fails.                             *)
(* A failure is a raised exception: the process stops where it is.         *)
(***************************************************************************)
EXTENDS Integers, Sequences, FiniteSets, TLC

VARIABLES rf, rf_fs, hist, ann, ann_fs, mt, sq, sq_fs, jn, call, tr, ap,
          pca, pca_fs

\* ------------------------------------------------------------------------
\* Values shared by the scripts
\* ------------------------------------------------------------------------

\* Python's None for an optional string argument (a value no string equals).
None == "<None>"

\* Python truthiness of an optional string: None and "" are falsy.
StrTruthy(v) == v # None /\ v # ""

\* A path that holds nothing.
Absent == [kind |-> "absent"]

Exists(fs, p) == fs[p] # Absent

\* Table.write / save_model / Table.checkpoint without _read_if_exists:
\* whether writing to p succeeds.
WriteOk(fs, p, overwrite) == overwrite \/ ~Exists(fs, p)

\* ------------------------------------------------------------------------
\* variant_qc/random_forest.py
\* ------------------------------------------------------------------------

\* Number of distinct 8-character run hashes uuid4 may produce in the model.
NumHashes == 2

HashPool == <<"0a1b2c3d", "4e5f6a7b", "8c9d0e1f", "deadbeef">>

Hashes == {HashPool[i] : i \in 1..NumHashes}

FEATURES_INITIAL ==
    <<"InbreedingCoeff", "variant_type", "allele_type", "n_alt_alleles",
      "was_mixed", "AS_QD", "AS_pab_max", "AS_MQRankSum", "AS_SOR",
      "AS_ReadPosRankSum">>

\* list.remove(x): the list without the first occurrence of x.
RECURSIVE ListRemove(_, _)
ListRemove(l, x) ==
    IF l = <<>> THEN <<>>
    ELSE IF Head(l) = x THEN Tail(l)
    ELSE <<Head(l)>> \o ListRemove(Tail(l), x)

\* Values --run_hash can take on the command line: absent, the empty string,
\* or any string (those of the pool stand for all non-empty strings).
RunHashArgs == {None, ""} \cup Hashes

RFArgs ==
    [run_hash : RunHashArgs,
     list_rf_runs : BOOLEAN,
     annotate_for_rf : BOOLEAN,
     train_rf : BOOLEAN,
     apply_rf : BOOLEAN,
     finalize : BOOLEAN,
     no_inbreeding_coeff : BOOLEAN,
     overwrite : BOOLEAN]

\* Storage paths of the script: <<resource, run hash>>.
RfRunsPath == <<"rf_run_hash_path", None>>
RfAnnotatedPath == <<"rf_annotated", None>>
RfAnnotationCheckpoint == <<"checkpoint_rf_annotation", None>>
GetRf(data, run_hash) == <<data, run_hash>>

RFPaths ==
    {RfRunsPath, RfAnnotatedPath, RfAnnotationCheckpoint}
        \cup ({"training", "model", "rf_result"} \X RunHashArgs)

\* get_rf_runs: the dictionary in the run-list file, {} when there is none.
EmptyRuns == [h \in {} |-> None]

\* get_rf_runs returning the empty dictionary whatever the file holds.
GetRfRuns_AlwaysEmpty(fs) == EmptyRuns

GetRfRuns(fs) ==
    IF Exists(fs, RfRunsPath) THEN fs[RfRunsPath].runs ELSE EmptyRuns

\* Lines 248-250: the warning get_rf_runs logs when there is no file.
RunsFileNotFound ==
    "File rf_run_hash_path could not be found. Returning empty RF run hash dict."

GetRfRunsWarnings(fs) ==
    IF Exists(fs, RfRunsPath) THEN {} ELSE {RunsFileNotFound}

\* Lines 322-325 without the loop: any hash uuid4 may produce.
FreshHashes_Any(rf_runs) == Hashes

\* Lines 322-325: uuid4 is drawn again while the hash is a key of the
\* loaded run list, so the hash main goes on with is none of its keys.
FreshHashes(rf_runs) == Hashes \ DOMAIN rf_runs

\* get_run_data: what is recorded about a run.
GetRunData(args, features) ==
    [input_args |-> [no_inbreeding_coeff |-> args.no_inbreeding_coeff],
     features_importance |-> features]

\* Line 478 with the negation of train_rf lost.
MissingRunHash_TrainNotNegated(args) ==
    ~StrTruthy(args.run_hash) /\ args.train_rf /\ args.apply_rf

\* Line 478: --apply_rf needs a hash when no run is trained.
MissingRunHash(args) ==
    ~StrTruthy(args.run_hash) /\ ~args.train_rf /\ args.apply_rf

\* Line 483: --run_hash and --train_rf together.
HashAndTrain(args) == StrTruthy(args.run_hash) /\ args.train_rf

\* train_rf, lines 185-188: features is FEATURES itself, not a copy.
TrainFeatures(FEATURES, args) ==
    IF args.no_inbreeding_coeff
    THEN ListRemove(FEATURES, "InbreedingCoeff")
    ELSE FEATURES

\* train_rf_model's outputs: the training table and the model of this run.
TrainingTable(features, annotated) ==
    [kind |-> "training", features |-> features, from |-> annotated.kind]

TrainedModel(features, run_hash) ==
    [kind |-> "model", features |-> features, run |-> run_hash]

\* The apply step taking the hash of the command line, whatever was trained.
ApplyRunHash_FromArgs(r) == r.args.run_hash

\* The hash the apply step works with (line 322 or line 352).
ApplyRunHash(r) == r.run_hash

\* Lines 356-362: the table the apply step computes for run_hash.
ApplyRfResult(fs, run_hash) ==
    [kind |-> "rf_result",
     model |-> fs[GetRf("model", run_hash)],
     training |-> fs[GetRf("training", run_hash)],
     rf_hash |-> run_hash]

RfNoArgs ==
    [run_hash |-> None, list_rf_runs |-> FALSE, annotate_for_rf |-> FALSE,
     train_rf |-> FALSE, apply_rf |-> FALSE, finalize |-> FALSE,
     no_inbreeding_coeff |-> FALSE, overwrite |-> FALSE]

\* The process before it is started: module-level values as the module
\* defines them (lines 40-63), nothing read or written.
RfIdle ==
    [pc |-> "idle", args |-> RfNoArgs, run_hash |-> None, rf_runs |-> EmptyRuns,
     FEATURES |-> FEATURES_INITIAL, hl_init |-> FALSE, reads |-> {},
     written |-> {}, generated |-> None, rf_model |-> Absent, ht |-> Absent,
     message |-> "", warnings |-> {}]

\* ------------------------------------------------------------------------
\* annotations/generate_qc_annotations.py
\* ------------------------------------------------------------------------

\* Number of versions of the input matrix table the model tells apart.
MaxVersion == 2

\* The order of main with export_transmitted_singletons_vcf tested before
\* generate_fam_stats.
AnnStages_SingletonsBeforeFamStats ==
    <<"compute_info", "split_info", "export_info_vcf", "generate_allele_data",
      "generate_ac", "export_transmitted_singletons_vcf",
      "generate_fam_stats", "vep">>

\* The stage flags, in the order main tests them (lines 296-329).
AnnStages ==
    <<"compute_info", "split_info", "export_info_vcf", "generate_allele_data",
      "generate_ac", "generate_fam_stats",
      "export_transmitted_singletons_vcf", "vep">>

AnnStageSet == {AnnStages[i] : i \in 1..Len(AnnStages)}

\* Paths the script writes.
InfoPath == "gnomad_genomes_v3_info.ht"
InfoSplitPath == "gnomad_genomes_v3_info.split.ht"
InfoVcfPath == "gnomad_genomes_v3_info.vcf.bgz"
AlleleDataPath == "allele_data.ht"
AcTmpPath == "gs://gnomad-tmp/ac_tmp.ht"
QcAcPath == "gnomad_genomes_qc_ac.ht"
FamStatsTmpPath == "gs://gnomad-tmp/fam_stats_tmp.ht"
FamStatsPath == "gnomad_genomes_qc_fam_stats.ht"
TransmittedSingletonVcfPath == "transmitted_singleton.vcf"
VepPath == "gnomad_genomes_v3_vep.ht"

AnnPaths ==
    {InfoPath, InfoSplitPath, InfoVcfPath, AlleleDataPath, AcTmpPath, QcAcPath,
     FamStatsTmpPath, FamStatsPath, TransmittedSingletonVcfPath, VepPath}

\* A table computed from version v of its input.
Table(kind, v) == [kind |-> kind, v |-> v]

\* Table.checkpoint(p, overwrite, _read_if_exists), lines 314 and 321: the
\* table read when p exists and _read_if_exists, else t written (as write
\* does) and read back.  [ok, fs, ht, read]
Checkpoint(fs, p, t, overwrite, read_if_exists) ==
    IF read_if_exists /\ Exists(fs, p)
    THEN [ok |-> TRUE, fs |-> fs, ht |-> fs[p], read |-> TRUE]
    ELSE IF WriteOk(fs, p, overwrite)
    THEN [ok |-> TRUE, fs |-> [fs EXCEPT ![p] = t], ht |-> t, read |-> FALSE]
    ELSE [ok |-> FALSE, fs |-> fs, ht |-> Absent, read |-> FALSE]

\* Table.write(p, overwrite).  [ok, fs]
Write(fs, p, t, overwrite) ==
    IF WriteOk(fs, p, overwrite)
    THEN [ok |-> TRUE, fs |-> [fs EXCEPT ![p] = t]]
    ELSE [ok |-> FALSE, fs |-> fs]

\* Lines 310-323: a checkpointed stage.  The computed table is checkpointed
\* with _read_if_exists = not overwrite, repartitioned and written.
CheckpointedStage(fs, tmp, out, kind, v, overwrite) ==
    LET c == Checkpoint(fs, tmp, Table(kind, v), overwrite, ~overwrite)
        w == Write(c.fs, out, c.ht, overwrite)
    IN [ok |-> c.ok /\ w.ok,
        fs |-> IF c.ok THEN w.fs ELSE c.fs,
        read |-> c.read]

\* One stage of main on storage fs with input version v.  [ok, fs, read]
RunStage(stage, fs, v, overwrite) ==
    CASE stage = "compute_info" ->
            Write(fs, InfoPath, Table("info", v), overwrite)
                @@ [read |-> FALSE]
      [] stage = "split_info" ->
            IF ~Exists(fs, InfoPath)
            THEN [ok |-> FALSE, fs |-> fs, read |-> FALSE]
            ELSE Write(fs, InfoSplitPath, Table("info_split", fs[InfoPath].v),
                       overwrite) @@ [read |-> FALSE]
      [] stage = "export_info_vcf" ->
            IF ~Exists(fs, InfoPath)
            THEN [ok |-> FALSE, fs |-> fs, read |-> FALSE]
            ELSE Write(fs, InfoVcfPath, Table("info_vcf", fs[InfoPath].v), TRUE)
                    @@ [read |-> FALSE]
      [] stage = "generate_allele_data" ->
            Write(fs, AlleleDataPath, Table("allele_data", v), overwrite)
                @@ [read |-> FALSE]
      [] stage = "generate_ac" ->
            CheckpointedStage(fs, AcTmpPath, QcAcPath, "qc_ac", v, overwrite)
      [] stage = "generate_fam_stats" ->
            CheckpointedStage(fs, FamStatsTmpPath, FamStatsPath, "fam_stats",
                              v, overwrite)
      [] stage = "export_transmitted_singletons_vcf" ->
            IF ~Exists(fs, QcAcPath) \/ ~Exists(fs, FamStatsPath)
            THEN [ok |-> FALSE, fs |-> fs, read |-> FALSE]
            ELSE Write(fs, TransmittedSingletonVcfPath,
                       [kind |-> "ts_vcf", v |-> fs[QcAcPath].v,
                        fam |-> fs[FamStatsPath].v], TRUE)
                    @@ [read |-> FALSE]
      [] stage = "vep" ->
            Write(fs, VepPath, Table("vep", v), overwrite) @@ [read |-> FALSE]

\* The position in main after stage i: the next selected stage, or the end
\* of main (one past the last stage).
NextStage(i, flags) ==
    LET later == {j \in (i+1)..Len(AnnStages) : AnnStages[j] \in flags}
    IN IF later = {} THEN Len(AnnStages) + 1
       ELSE CHOOSE j \in later : \A k \in later : j <= k

AnnIdle ==
    [pc |-> "idle", at |-> 0, flags |-> {}, overwrite |-> FALSE, hl_init |-> FALSE,
     ran |-> <<>>, had_checkpoint |-> {}, read_checkpoint |-> {},
     completed |-> {}]

\* The stage flags the re-run specification draws from: the checkpointed
\* stages, the stage that reads their outputs and a stage that runs before
\* them.
RerunFlags ==
    {"compute_info", "generate_ac", "generate_fam_stats",
     "export_transmitted_singletons_vcf"}

\* The checkpoint and the output path of a checkpointed stage.
CheckpointedStages == {"generate_ac", "generate_fam_stats"}

CheckpointPath(stage) ==
    IF stage = "generate_ac" THEN AcTmpPath ELSE FamStatsTmpPath

OutputPath(stage) ==
    IF stage = "generate_ac" THEN QcAcPath ELSE FamStatsPath

\* ------------------------------------------------------------------------
\* sample_qc/sample_qc.py
\* ------------------------------------------------------------------------

\* Number of samples of the callset.
NumSamples == 2

Samples == 1..NumSamples

\* ---- join_tables --------------------------------------------------------

\* Tables keyed by sample, for join_tables: the set of their keys.
KeyedTables == SUBSET Samples

JoinTypes == {"inner", "left", "right", "outer"}

\* compare_row_counts with the comparison taken for <=.
CompareRowCounts_AtMost(ht1, ht2) == Cardinality(ht1) <= Cardinality(ht2)

\* compare_row_counts, lines 466-477.
CompareRowCounts(ht1, ht2) == Cardinality(ht1) = Cardinality(ht2)

\* left_ht.key_by(left_key).join(right_ht.key_by(right_key), how), line 498:
\* the keys of the joined table.
JoinKeys(left_ht, right_ht, how) ==
    CASE how = "inner" -> left_ht \cap right_ht
      [] how = "left" -> left_ht
      [] how = "right" -> right_ht
      [] how = "outer" -> left_ht \cup right_ht

\* join_tables, lines 480-498: what it logs and what it returns.
JoinTables(left_ht, right_ht, how) ==
    LET sample_count_match == CompareRowCounts(left_ht, right_ht)
    IN [called |-> TRUE, left |-> left_ht, right |-> right_ht, how |-> how,
        info |-> <<Cardinality(left_ht), Cardinality(right_ht)>>,
        warnings |-> IF ~sample_count_match
                     THEN {"Sample counts in left and right tables do not match!"}
                     ELSE {},
        raised |-> FALSE,
        result |-> JoinKeys(left_ht, right_ht, how)]

JnIdle ==
    [called |-> FALSE, left |-> {}, right |-> {}, how |-> "inner",
     info |-> <<0, 0>>, warnings |-> {}, raised |-> FALSE, result |-> {}]

\* ---- sex imputation and --reannotate_sex --------------------------------

\* Numbers stand for floats in tenths (ploidy 1.4 is 14); NoFloat is the None
\* of an optional float argument.
NoFloat == -1

\* Python truthiness of an optional float: None and 0.0 are falsy.
FloatTruthy(v) == v # NoFloat /\ v # 0

CutoffNames ==
    {"upper_x", "lower_xx", "upper_xx", "lower_xxx",
     "lower_y", "upper_y", "lower_yy"}

\* Values a cutoff flag takes on the command line: not given, 0.0, or a
\* non-zero float.
CutoffArgValues == {NoFloat, 0, 13}

\* Number of cutoff flags one command line of the model gives at most.
MaxCutoffsGiven == 2

CutoffArgs ==
    {f \in [CutoffNames -> CutoffArgValues] :
        Cardinality({c \in CutoffNames : f[c] # NoFloat}) <= MaxCutoffsGiven}

\* The cutoffs get_ploidy_cutoffs may return (line 736): an estimate from
\* the ploidy distributions of the samples that are not hard-filtered.
ComputedCutoffs ==
    {[upper_x |-> 14, lower_xx |-> 16, upper_xx |-> 25, lower_xxx |-> 26,
      lower_y |-> 1, upper_y |-> 12, lower_yy |-> 14],
     [upper_x |-> 12, lower_xx |-> 17, upper_xx |-> 24, lower_xxx |-> 27,
      lower_y |-> 2, upper_y |-> 11, lower_yy |-> 15]}

ImputeCutoffs ==
    [upper_x |-> 14, lower_xx |-> 16, upper_xx |-> 25, lower_xxx |-> 26,
     lower_y |-> 1, upper_y |-> 12, lower_yy |-> 14]

\* Lines 740-750: args.<c> if args.<c> else the computed cutoff.
CutoffUsed(arg, computed) == IF FloatTruthy(arg) THEN arg ELSE computed

PloidyCutoffs(cutoff_args, computed) ==
    [c \in CutoffNames |-> CutoffUsed(cutoff_args[c], computed[c])]

\* get_sex_expr as called at lines 752-760: the karyotype fields from the
\* ploidies and the cutoffs.
GetSexExpr(chrX_ploidy, chrY_ploidy, cut) ==
    LET x == IF chrX_ploidy < cut.upper_x THEN "X"
             ELSE IF chrX_ploidy > cut.lower_xx /\ chrX_ploidy < cut.upper_xx
             THEN "XX"
             ELSE IF chrX_ploidy >= cut.lower_xxx THEN "XXX"
             ELSE "ambiguous"
        y == IF chrY_ploidy < cut.lower_y THEN ""
             ELSE IF chrY_ploidy > cut.lower_y /\ chrY_ploidy < cut.upper_y
             THEN "Y"
             ELSE IF chrY_ploidy >= cut.lower_yy THEN "YY"
             ELSE "ambiguous"
    IN [X_karyotype |-> x, Y_karyotype |-> y,
        sex_karyotype |-> IF x = "ambiguous" \/ y = "ambiguous"
                          THEN "ambiguous" ELSE x \o y]

\* The sex imputation metrics of a sample (annotate_sex, lines 210-218).
SexMetrics ==
    {[chrX_ploidy |-> 20, chrY_ploidy |-> 0, f_stat |-> 1, chr20_mean_dp |-> 30],
     [chrX_ploidy |-> 13, chrY_ploidy |-> 0, f_stat |-> 9, chr20_mean_dp |-> 8]}

MetricFields == {"chrX_ploidy", "chrY_ploidy", "f_stat", "chr20_mean_dp"}

\* ht.annotate(**fields): the row with the fields added or replaced.
Annotate(row, fields) ==
    [f \in DOMAIN row \cup DOMAIN fields |->
        IF f \in DOMAIN fields THEN fields[f] ELSE row[f]]

SexRow(m, cut) ==
    Annotate(m, GetSexExpr(m.chrX_ploidy, m.chrY_ploidy, cut))

\* Lines 740-750 and 762-765: the two structs of cutoffs kept in the globals.
CutoffGlobals(cut) ==
    [x_ploidy_cutoffs |->
        [upper_x |-> cut.upper_x, lower_xx |-> cut.lower_xx,
         upper_xx |-> cut.upper_xx, lower_xxx |-> cut.lower_xxx],
     y_ploidy_cutoffs |->
        [lower_y |-> cut.lower_y, upper_y |-> cut.upper_y,
         lower_yy |-> cut.lower_yy]]

\* The fields get_sex_expr produces and the globals line 762 sets.
SexExprFields == {"X_karyotype", "Y_karyotype", "sex_karyotype"}

CutoffGlobalNames == {"x_ploidy_cutoffs", "y_ploidy_cutoffs"}

\* A sex table: rows keyed by sample, and the globals (the cutoffs and the
\* f_stat_cutoff 0.5 of line 199).
SexTable(rows, cut) ==
    [kind |-> "sex", rows |-> rows,
     globals |-> Annotate([f_stat_cutoff |-> 5], CutoffGlobals(cut))]

\* The sex tables compute_sex can have written (line 729).
SexTables ==
    {SexTable([s \in DOMAIN m |-> SexRow(m[s], ImputeCutoffs)], ImputeCutoffs) :
        m \in UNION {[S -> SexMetrics] : S \in SUBSET Samples}}

\* --min_cov, line 935.
DefaultMinCov == 15

\* compute_hard_filters(cov_threshold, include_sex_filter=False), lines
\* 147-196, as far as the sex table decides it: the samples with a
\* non-empty hard_filters set are those of low coverage and those failing a
\* filter that other tables decide (other_failed).
HardFilteredSamples(sex_ht, cov_threshold, other_failed) ==
    {s \in DOMAIN sex_ht.rows : sex_ht.rows[s].chr20_mean_dp < cov_threshold}
        \cup other_failed

\* Line 737: the rows get_ploidy_cutoffs sees.
FilterRows(sex_ht, hard_filtered) ==
    [sex_ht EXCEPT !.rows =
        [s \in DOMAIN sex_ht.rows \ hard_filtered |-> sex_ht.rows[s]]]

\* Line 751 annotating the filtered table of line 737.
ReannotatedTable_Filtered(sex_ht, hard_filtered) ==
    FilterRows(sex_ht, hard_filtered)

\* Line 751: the table that is annotated and written is the checkpointed
\* copy of the whole sex table.
ReannotatedTable(sex_ht, hard_filtered) == sex_ht

\* Lines 751-765: the karyotype fields and the cutoff globals replaced.
AnnotateSex(sex_ht, cut) ==
    [sex_ht EXCEPT
        !.rows = [s \in DOMAIN sex_ht.rows |->
                    Annotate(sex_ht.rows[s],
                             GetSexExpr(sex_ht.rows[s].chrX_ploidy,
                                        sex_ht.rows[s].chrY_ploidy, cut))],
        !.globals = Annotate(sex_ht.globals, CutoffGlobals(cut))]

SexPath == "sex.ht"
SexCheckpointPath == "gs://gnomad-tmp/sex_ht_checkpoint.ht"
HardFilterCheckpointPath == "gs://gnomad-tmp/hardfilter_checkpoint.ht"

SqPaths == {SexPath, SexCheckpointPath, HardFilterCheckpointPath}

SQArgs ==
    [impute_sex : BOOLEAN, reannotate_sex : BOOLEAN, overwrite : BOOLEAN,
     min_cov : {DefaultMinCov},
     cutoffs : CutoffArgs]

SqNoArgs ==
    [impute_sex |-> FALSE, reannotate_sex |-> FALSE, overwrite |-> FALSE,
     min_cov |-> DefaultMinCov, cutoffs |-> [c \in CutoffNames |-> NoFloat]]

SqIdle ==
    [pc |-> "idle", args |-> SqNoArgs, branch |-> "none",
     sex_read |-> Absent, computed |-> ImputeCutoffs, used |-> ImputeCutoffs,
     written |-> {}]

\* The table compute_sex returns for the callset (lines 199-220).
ImputedSexTable ==
    SexTable([s \in Samples |->
                SexRow(CHOOSE m \in SexMetrics : m.chrX_ploidy = 20,
                       ImputeCutoffs)], ImputeCutoffs)

\* ---- overlapping --train_rf invocations ---------------------------------

\* Two invocations of random_forest.py --train_rf, started independently.
TrainProcs == {1, 2}

\* The command line of such an invocation.
TrainArgs(overwrite) ==
    [RfNoArgs EXCEPT !.train_rf = TRUE, !.overwrite = overwrite]

\* An invocation before it is started.  early: whether it loaded the run
\* list before the other invocation wrote it.
TrProcIdle ==
    [pc |-> "idle", args |-> RfNoArgs, run_hash |-> None,
     rf_runs |-> EmptyRuns, ht |-> Absent, rf_model |-> Absent,
     early |-> FALSE, message |-> ""]

TrIdle == [p \in TrainProcs |-> TrProcIdle]

\* The table create_rf_ht wrote (lines 66-181, 316-318).
AnnotatedTable == [kind |-> "rf_annotated"]

\* ---- assign_pops: the re-training loop ------------------------------------

\* A missing population label.
NoPop == "NA"

\* Populations of the training labels; what the classifier assigns when no
\* population reaches min_prob.
Pops == {"nfe", "afr"}

Oth == "oth"

\* --max_mislabeled_training_samples values of the model (all >= 0).
MaxMislabeledValues == {0, 1}

\* The samples with a training label.
Labelled(training_pop) == {s \in DOMAIN training_pop : training_pop[s] # NoPop}

\* Lines 298-305: training_pop with the labels of the withheld samples
\* removed.
Withhold(training_pop_all, withheld) ==
    [s \in DOMAIN training_pop_all |->
        IF s \in withheld THEN NoPop ELSE training_pop_all[s]]

\* assign_population_pcs (lines 316-321, 349-354): the classifier is fitted
\* on the labelled samples and assigns every sample one of their
\* populations or oth.
Predictions(training_pop) ==
    [DOMAIN training_pop ->
        {training_pop[s] : s \in Labelled(training_pop)} \cup {Oth}]

\* Lines 323 and 357: count_where(training_pop != pop); a missing label is
\* not counted.
Mislabeled(training_pop, pop) ==
    {s \in DOMAIN training_pop :
        training_pop[s] # NoPop /\ training_pop[s] # pop[s]}

\* Lines 331-336 keeping every training label.
RemoveMislabeled_KeepAll(training_pop, pop) == training_pop

\* Lines 331-336: or_missing(training_pop == pop, training_pop).
RemoveMislabeled(training_pop, pop) ==
    [s \in DOMAIN training_pop |->
        IF training_pop[s] # NoPop /\ training_pop[s] = pop[s]
        THEN training_pop[s] ELSE NoPop]

\* Lines 337-340: or_missing(is_missing(training_pop) | training_pop == pop,
\* training_pop_all).
RemoveMislabeledAll(training_pop_all, training_pop, pop) ==
    [s \in DOMAIN training_pop_all |->
        IF training_pop[s] = NoPop \/ training_pop[s] = pop[s]
        THEN training_pop_all[s] ELSE NoPop]

\* Passes of the loop after which the model stops following it; more than
\* any run of the loop over the samples takes.
MaxIter == NumSamples + 3

ApIdle ==
    [pc |-> "idle", max_mislabeled_training_samples |-> 0,
     training_pop |-> [s \in Samples |-> NoPop],
     training_pop_all |-> [s \in Samples |-> NoPop],
     pop |-> [s \in Samples |-> NoPop],
     n_mislabeled_samples |-> 0, known_pop_removal_iter |-> 0,
     labelled_at_start |-> 0]

\* ---- single function calls ----------------------------------------------

\* No function is being called.
NoCall == [fn |-> "none"]

\* Hail's booleans are three-valued: true, false, missing.
HlBool == {"T", "F", "NA"}

HlOr(a, b) ==
    IF a = "T" \/ b = "T" THEN "T"
    ELSE IF a = "F" /\ b = "F" THEN "F" ELSE "NA"

HlAnd(a, b) ==
    IF a = "F" \/ b = "F" THEN "F"
    ELSE IF a = "T" /\ b = "T" THEN "T" ELSE "NA"

HlNot(a) == IF a = "T" THEN "F" ELSE IF a = "F" THEN "T" ELSE "NA"

\* ---- train_rf: the training labels ---------------------------------------

\* The columns of the annotated table train_rf labels a variant from, and
\* the training sites of the VQSR table.
LabelInputs ==
    [omni : HlBool, mills : HlBool, transmitted_singleton : HlBool,
     fail_hard_filters : HlBool,
     vqsr_POSITIVE_TRAIN_SITE : {"T", "F"},
     vqsr_NEGATIVE_TRAIN_SITE : {"T", "F"}]

LabelArgs == [vqsr_training : BOOLEAN, no_transmitted_singletons : BOOLEAN]

\* Lines 200-202 with transmitted singletons used whatever the flag says.
TpExpr_WithSingletons(ht, args) ==
    HlOr(HlOr(ht.omni, ht.mills), ht.transmitted_singleton)

\* Lines 200-202: tp_expr without --vqsr_training.
TpExpr(ht, args) ==
    IF ~args.no_transmitted_singletons
    THEN HlOr(HlOr(ht.omni, ht.mills), ht.transmitted_singleton)
    ELSE HlOr(ht.omni, ht.mills)

\* train_rf, lines 190-212: the tp and fp annotations of a variant.
TrainRfLabels(ht, args) ==
    IF args.vqsr_training
    THEN [tp |-> ht.vqsr_POSITIVE_TRAIN_SITE, fp |-> ht.vqsr_NEGATIVE_TRAIN_SITE]
    ELSE [tp |-> TpExpr(ht, args), fp |-> ht.fail_hard_filters]

\* ---- relatedness: get_relatedness_set_ht, get_relationship_filter_expr ----

\* The relationship labels of gnomad.sample_qc.relatedness (lines 15-22).
UNRELATED == "unrelated"
SECOND_DEGREE_RELATIVES == "second degree relatives"
PARENT_CHILD == "parent-child"
SIBLINGS == "siblings"
DUPLICATE_OR_TWINS == "duplicate/twins"

Relationships ==
    {UNRELATED, SECOND_DEGREE_RELATIVES, PARENT_CHILD, SIBLINGS,
     DUPLICATE_OR_TWINS}

\* A missing set-valued expression (a value no set of labels equals).
MissingSet == {"<missing>"}

SetIsDefined(set) == IF set # MissingSet THEN "T" ELSE "F"

\* hl.if_else(cond, a, b): missing when cond is missing.
HlIfElse(cond, a, b) ==
    IF cond = "T" THEN a ELSE IF cond = "F" THEN b ELSE "NA"

\* Number of samples of the relatedness tables.
NumRelated == 3

RelatedSamples == 1..NumRelated

\* The sample pairs pc_relate reports on: (i, j) with i before j.
Pairs(samples) == {p \in samples \X samples : p[1] < p[2]}

\* The relatedness tables over a set of samples: a relationship for some of
\* the pairs.
RelatednessTables(samples) ==
    UNION {[P -> Relationships] : P \in SUBSET Pairs(samples)}

\* get_relatedness_set_ht with the j side of the union lost (line 437).
GetRelatednessSetHt_OnlyI(relatedness_ht) ==
    LET related == {p \in DOMAIN relatedness_ht : relatedness_ht[p] # UNRELATED}
    IN [s \in {p[1] : p \in related} |->
          {relatedness_ht[p] : p \in {q \in related : q[1] = s}}]

\* get_relatedness_set_ht, lines 426-442: filter out UNRELATED, one row per
\* pair and member (select ... s=i.s union select ... s=j.s), then the set
\* of relationships collected per s.
GetRelatednessSetHt(relatedness_ht) ==
    LET related == {p \in DOMAIN relatedness_ht : relatedness_ht[p] # UNRELATED}
        rows == {[key |-> p, relationship |-> relatedness_ht[p], s |-> p[1]] :
                    p \in related}
                \cup {[key |-> p, relationship |-> relatedness_ht[p], s |-> p[2]] :
                        p \in related}
    IN [s \in {r.s : r \in rows} |->
          {r.relationship : r \in {x \in rows : x.s = s}}]

\* get_relationship_filter_expr testing the relationship set before the
\* hard filter.
GetRelationshipFilterExpr_SetFirst(hard_filtered_expr, relationship, relationship_set) ==
    IF relationship_set # MissingSet
    THEN (IF relationship \in relationship_set THEN "T" ELSE "F")
    ELSE IF hard_filtered_expr = "F" THEN "F" ELSE "NA"

\* get_relationship_filter_expr, lines 445-463: hl.case() with its whens in
\* order; a missing condition makes the case missing.
GetRelationshipFilterExpr(hard_filtered_expr, relationship, relationship_set) ==
    IF hard_filtered_expr = "NA" THEN "NA"
    ELSE IF hard_filtered_expr = "T" THEN "NA"
    ELSE IF SetIsDefined(relationship_set) = "T"
    THEN (IF relationship \in relationship_set THEN "T" ELSE "F")
    ELSE "F"

\* The relationships get_relationship_filter_expr is called with (lines
\* 623-656) and the sets it may be given.
FilterRelationships == {DUPLICATE_OR_TWINS, PARENT_CHILD, SIBLINGS}

RelationshipSets == (SUBSET Relationships) \cup {MissingSet}

\* ---- generate_metadata: hard filters and relatedness flags --------------

\* ht[key].field for a set-valued field: missing when ht has no row for key.
SetField(ht, key, field) ==
    IF key \in DOMAIN ht THEN ht[key][field] ELSE MissingSet

\* hl.is_defined(ht[key]): whether ht has a row for key.
RowIsDefined(ht, key) == IF key \in DOMAIN ht THEN "T" ELSE "F"

\* hl.len(set) > 0: missing for a missing set.
LenPositive(set) ==
    IF set = MissingSet THEN "NA"
    ELSE IF Cardinality(set) > 0 THEN "T" ELSE "F"

\* Line 594: hard_filtered.
HardFiltered(hard_filters) ==
    HlIfElse(HlAnd(SetIsDefined(hard_filters), LenPositive(hard_filters)),
             "T", "F")

\* The hard-filtered samples tables --compute_hard_filters writes (lines
\* 768-771): a non-empty set of filters for some of the samples.
HardFilteredTables ==
    UNION {[S -> {[hard_filters |-> {"low_coverage"}]}] : S \in SUBSET Samples}

\* The related-samples-to-drop tables: keyed by sample, with no other
\* field (an empty row).
DropTables == UNION {[S -> {<<>>}] : S \in SUBSET Samples}

\* Lines 604-609: the drop table annotated with the relationships of its
\* samples.
AnnotateRelationships(drop_ht, relatedness_ht) ==
    [s \in DOMAIN drop_ht |->
        [relationships |-> SetField(relatedness_ht, s, "relationships")]]

\* Lines 618-622 with is_defined taken of the row's relationships.
RelatedFlag_OfRelationships(hard_filtered, drop_ht, s) ==
    HlIfElse(hard_filtered, "NA",
             SetIsDefined(SetField(drop_ht, s, "relationships")))

\* Lines 618-622 and 638-642: release_related / all_samples_related.
RelatedFlag(hard_filtered, drop_ht, s) ==
    HlIfElse(hard_filtered, "NA", RowIsDefined(drop_ht, s))

\* Lines 617-659: the eight relatedness flags of one sample.
RelatednessFlags(hard_filtered, release_drop_ht, pca_drop_ht, s) ==
    LET release_set == SetField(release_drop_ht, s, "relationships")
        pca_set == SetField(pca_drop_ht, s, "relationships")
    IN [release_related |-> RelatedFlag(hard_filtered, release_drop_ht, s),
        release_duplicate |->
            GetRelationshipFilterExpr(hard_filtered, DUPLICATE_OR_TWINS, release_set),
        release_parent_child |->
            GetRelationshipFilterExpr(hard_filtered, PARENT_CHILD, release_set),
        release_sibling |->
            GetRelationshipFilterExpr(hard_filtered, SIBLINGS, release_set),
        all_samples_related |-> RelatedFlag(hard_filtered, pca_drop_ht, s),
        all_samples_duplicate |->
            GetRelationshipFilterExpr(hard_filtered, DUPLICATE_OR_TWINS, pca_set),
        all_samples_parent_child |->
            GetRelationshipFilterExpr(hard_filtered, PARENT_CHILD, pca_set),
        all_samples_sibling |->
            GetRelationshipFilterExpr(hard_filtered, SIBLINGS, pca_set)]

RelatedFlagNames ==
    {"release_related", "release_duplicate", "release_parent_child",
     "release_sibling", "all_samples_related", "all_samples_duplicate",
     "all_samples_parent_child", "all_samples_sibling"}

\* generate_metadata, lines 575-665: the sample_filters struct and the
\* relatedness_inference of every sample of the callset.
GenerateMetadata(hard_filtered_ht, pca_drop, release_drop, relatedness) ==
    LET sets == GetRelatednessSetHt(relatedness)
        relatedness_ht == [s \in DOMAIN sets |-> [relationships |-> sets[s]]]
        related_samples_to_drop_ht ==
            AnnotateRelationships(pca_drop, relatedness_ht)
        release_related_samples_to_drop_ht ==
            AnnotateRelationships(release_drop, relatedness_ht)
    IN [s \in Samples |->
          LET hard_filters == SetField(hard_filtered_ht, s, "hard_filters")
              hard_filtered == HardFiltered(hard_filters)
          IN [sample_filters |->
                Annotate([hard_filters |-> hard_filters,
                          hard_filtered |-> hard_filtered],
                         RelatednessFlags(hard_filtered,
                                          release_related_samples_to_drop_ht,
                                          related_samples_to_drop_ht, s)),
              relatedness_inference |->
                [relationships |->
                    SetField(relatedness_ht, s, "relationships")]]]

\* ---- compute_hard_filters -----------------------------------------------

\* Line 163: cov_ht[ht.key].chr20_mean_dp < cov_threshold; missing for a
\* sample the sex table has no coverage for (NoFloat).
LowCoverage(chr20_mean_dp, cov_threshold) ==
    IF chr20_mean_dp = NoFloat THEN "NA"
    ELSE IF chr20_mean_dp < cov_threshold THEN "T" ELSE "F"

\* Lines 182-186: the two filters on the sex karyotype.
SexFilters(sex_karyotype) ==
    [ambiguous_sex |-> IF sex_karyotype = "ambiguous" THEN "T" ELSE "F",
     sex_aneuploidy |->
        IF sex_karyotype \in {"ambiguous", "XX", "XY"} THEN "F" ELSE "T"]

\* add_filters_expr (lines 189-193): the fold, by set union, of
\* hl.if_else(condition, {name}, {}) over the filters. hl.if_else is missing
\* for a missing condition and the union with a missing set is missing, so
\* the result is the names of the true conditions when every condition is
\* defined and missing otherwise.
AddFiltersExpr(filters) ==
    IF \E f \in DOMAIN filters : filters[f] = "NA"
    THEN MissingSet
    ELSE {f \in DOMAIN filters : filters[f] = "T"}

\* Coverages, karyotypes and thresholds the calls of the model draw from.
CoverageValues == {NoFloat, 14, 15, 16}

KaryotypeValues == {"XX", "X"}

MinCovValues == {DefaultMinCov, 16}

\* What the tables compute_hard_filters reads hold for one sample: the
\* coverage and karyotype of the sex table, and a condition (contamination,
\* line 177) the Picard metrics decide, missing for a sample the Picard
\* metrics table has no row or no freemix for.
HardFilterInputs ==
    [chr20_mean_dp : CoverageValues, sex_karyotype : KaryotypeValues,
     contamination : {"T", "F", "NA"}]

\* Lines 149-186: the filters dictionary of one sample.
HardFilterConditions(m, cov_threshold, include_sex_filter) ==
    LET base == [low_coverage |-> LowCoverage(m.chr20_mean_dp, cov_threshold),
                 contamination |-> m.contamination]
    IN IF include_sex_filter
       THEN Annotate(base, SexFilters(m.sex_karyotype))
       ELSE base

\* compute_hard_filters, lines 147-196: the columns annotated with
\* hard_filters (lines 189-193) and filtered to hl.len(hard_filters) > 0
\* (line 195); Table.filter removes the rows whose predicate is false or
\* missing.
ComputeHardFilters(cols, cov_threshold, include_sex_filter) ==
    LET hf == [s \in DOMAIN cols |->
                 AddFiltersExpr(HardFilterConditions(cols[s], cov_threshold,
                                                     include_sex_filter))]
    IN [s \in {x \in DOMAIN cols : LenPositive(hf[x]) = "T"} |-> hf[s]]

\* ---- --run_pca ------------------------------------------------------------

\* Number of samples of the QC callset the PCA runs on.
NumPcaSamples == 2

PcaSamples == 1..NumPcaSamples

\* Kinships, times 100: pc_relate emits the pairs with kinship of at least
\* 0.05 (line 786), so a pair is absent from the relatedness table or has one
\* of these.
KinValues == {8, 15}

\* --second_degree_kin_cutoff, times 100 (line 954: default 0.1).
DefaultKinCutoff == 10

KinCutoffValues == {DefaultKinCutoff, 5}

\* Paths of the --run_pca branch (lines 810, 819, 821, 822, 823).
RelatednessPath == "relatedness.ht"
PcaSamplesRankingsPath == "pca_samples_rankings.ht"
PcaRelatedSamplesToDropPath == "pca_related_samples_to_drop.ht"
EigenvaluesPath == "gnomad_v3.1_eigenvalues.txt"

AncestryPcaScoresPath(include_unreleasable_samples) ==
    IF include_unreleasable_samples
    THEN "ancestry_pca_scores_with_unreleasable.ht"
    ELSE "ancestry_pca_scores.ht"

AncestryPcaLoadingsPath(include_unreleasable_samples) ==
    IF include_unreleasable_samples
    THEN "ancestry_pca_loadings_with_unreleasable.ht"
    ELSE "ancestry_pca_loadings.ht"

ProjectMetaPath == "project_meta.ht"

PcaPaths ==
    {RelatednessPath, ProjectMetaPath, PcaSamplesRankingsPath,
     PcaRelatedSamplesToDropPath, EigenvaluesPath}
        \cup {AncestryPcaScoresPath(b) : b \in BOOLEAN}
        \cup {AncestryPcaLoadingsPath(b) : b \in BOOLEAN}

\* compute_sample_rankings (lines 223-251): the samples ordered by filtered,
\* releasable and coverage, with their index as rank.  The samples of the
\* model are ranked in the order of their number and none is filtered.
ComputeSampleRankings ==
    [kind |-> "rank", rank |-> [s \in PcaSamples |-> s], filtered |-> {}]

\* The pairs compute_related_samples_to_drop takes for related (line 815):
\* kinship above the cutoff, neither sample filtered.
RelatedPairs(relatedness_ht, kin_threshold, filtered_samples) ==
    {p \in DOMAIN relatedness_ht.kin :
        /\ relatedness_ht.kin[p] > kin_threshold
        /\ p[1] \notin filtered_samples
        /\ p[2] \notin filtered_samples}

\* The samples of best rank kept so that no two kept samples are related:
\* the samples are taken by increasing rank, from rank r on.
RECURSIVE KeepByRank(_, _, _, _)
KeepByRank(rank, related, r, kept) ==
    IF r > Cardinality(DOMAIN rank) THEN kept
    ELSE LET s == CHOOSE x \in DOMAIN rank : rank[x] = r
         IN KeepByRank(rank, related, r + 1,
                IF \E k \in kept : <<k, s>> \in related \/ <<s, k>> \in related
                THEN kept ELSE kept \cup {s})

\* compute_related_samples_to_drop(relatedness_ht, rank_ht, kin_threshold,
\* filtered_samples), lines 812-818: the table of the related samples that
\* are not kept, keyed by sample.
ComputeRelatedSamplesToDrop(relatedness_ht, rank_ht, kin_threshold, filtered_samples) ==
    LET related == RelatedPairs(relatedness_ht, kin_threshold,
                                filtered_samples)
        kept == KeepByRank(rank_ht.rank, related, 1, {})
    IN [kind |-> "samples_to_drop",
        s |-> {x \in DOMAIN rank_ht.rank :
                  /\ x \notin kept
                  /\ \E q \in related : x \in {q[1], q[2]}}]

\* run_pca(include_unreleasable_samples, n_pcs, related_samples_to_drop),
\* lines 254-275: the PCA of the samples that are not dropped; the
\* unreleasable and excluded samples of the project metadata are dropped
\* too unless include_unreleasable_samples.
RunPca(include_unreleasable_samples, related_samples_to_drop, project_meta) ==
    LET samples_to_drop ==
            IF include_unreleasable_samples
            THEN related_samples_to_drop.s
            ELSE related_samples_to_drop.s \cup project_meta.unreleasable
    IN [related_samples_to_drop |-> related_samples_to_drop.s,
        samples_to_drop |-> samples_to_drop,
        pca_samples |-> PcaSamples \ samples_to_drop]

\* The arguments of --run_pca that main reads (lines 810-822).
PcaArgs ==
    [overwrite : BOOLEAN, include_unreleasable_samples : BOOLEAN,
     second_degree_kin_cutoff : KinCutoffValues]

PcaIdle ==
    [pc |-> "idle", args |-> [overwrite |-> FALSE,
                              include_unreleasable_samples |-> FALSE,
                              second_degree_kin_cutoff |-> DefaultKinCutoff],
     rank_ht |-> Absent, rank_read |-> FALSE,
     samples_to_drop |-> Absent, drop_read |-> FALSE,
     pca |-> Absent]

\* ------------------------------------------------------------------------
\* create_release/make_var_annot_hists.py
\* ------------------------------------------------------------------------

\* Names bound at module level when main is called (imports, lines 1-23,
\* and the definitions of lines 26-57).
HistModuleNames ==
    {"argparse", "json", "logging", "hl", "DataException",
     "create_frequency_bins_expr", "get_annotations_hists", "file_exists",
     "slack_notifications", "slack_token", "CURRENT_RELEASE",
     "annotation_hists_path", "qual_hists_json_path", "release_ht_path",
     "logger", "LOG10_ANNOTATIONS", "create_frequency_bins_expr_inbreeding",
     "main"}

QualHistsJsonPath == <<"qual_hists_json_path", "CURRENT_RELEASE">>

HistIdle ==
    [pc |-> "idle", first_pass |-> FALSE, slack_channel |-> FALSE,
     hl_init |-> FALSE, printed_minmax |-> FALSE, json_written |-> {},
     hists_mutated |-> FALSE, error |-> ""]

vars == <<rf, rf_fs, hist, ann, ann_fs, mt, sq, sq_fs, jn, call, tr, ap,
          pca, pca_fs>>

\* What the actions of one script leave alone: the state of the others.
others_rf == <<ann, ann_fs, mt, sq, sq_fs, jn, call, tr, ap,
    pca, pca_fs>>

others_ann == <<rf, rf_fs, hist, sq, sq_fs, jn, call, tr, ap,
    pca, pca_fs>>

others_sq == <<rf, rf_fs, hist, ann, ann_fs, mt, call, tr, ap,
    pca, pca_fs>>

others_call == <<rf, rf_fs, hist, ann, ann_fs, mt, sq, sq_fs, jn, tr, ap,
    pca, pca_fs>>

others_tr == <<rf, hist, ann, ann_fs, mt, sq, sq_fs, jn, call, ap,
    pca, pca_fs>>

others_ap == <<rf, rf_fs, hist, ann, ann_fs, mt, sq, sq_fs, jn, call, tr,
    pca, pca_fs>>

others_pca == <<rf, rf_fs, hist, ann, ann_fs, mt, sq, sq_fs, jn, call, tr, ap>>

\* ---- random_forest.py: the process -------------------------------------

RfFail(r, msg) == [r EXCEPT !.pc = "error", !.message = msg]

\* Lines 476-492: parse the arguments, reject the invalid combinations with
\* sys.exit, else call main.  uuid4 has a free hash for every run the model
\* starts (the pool bounds the run list).
RF_Start(args) ==
    /\ rf.pc = "idle"
    /\ hist.pc = "idle"
    /\ args.train_rf => (Hashes \ DOMAIN GetRfRuns(rf_fs)) # {}
    /\ rf' = IF MissingRunHash(args)
             THEN [rf EXCEPT !.pc = "exited", !.args = args,
                     !.message = "Error: --run_hash is required when running --apply_rf without running --train_rf too."]
             ELSE IF HashAndTrain(args)
             THEN [rf EXCEPT !.pc = "exited", !.args = args,
                     !.message = "Error: --run_hash and --train_rf are mutually exclusive. --train_rf will generate a run hash."]
             ELSE [rf EXCEPT !.pc = "main", !.args = args]
    /\ UNCHANGED <<rf_fs, hist, others_rf>>

\* Lines 303-307: hl.init, then --list_rf_runs.
RF_MainInit ==
    /\ rf.pc = "main"
    /\ rf' = [rf EXCEPT !.pc = "annotate",
                !.hl_init = TRUE,
                !.reads = IF rf.args.list_rf_runs
                          THEN @ \cup {RfRunsPath} ELSE @,
                !.warnings = IF rf.args.list_rf_runs
                             THEN @ \cup GetRfRunsWarnings(rf_fs) ELSE @]
    /\ UNCHANGED <<rf_fs, hist, others_rf>>

\* Lines 309-319: --annotate_for_rf.  create_rf_ht checkpoints with
\* overwrite=True (line 170), then the table is written.
RF_Annotate ==
    /\ rf.pc = "annotate"
    /\ IF ~rf.args.annotate_for_rf
       THEN /\ rf' = [rf EXCEPT !.pc = "train"]
            /\ UNCHANGED rf_fs
       ELSE LET fs1 == [rf_fs EXCEPT ![RfAnnotationCheckpoint] = AnnotatedTable]
                r1 == [rf EXCEPT !.written = @ \cup {RfAnnotationCheckpoint}]
            IN IF WriteOk(fs1, RfAnnotatedPath, rf.args.overwrite)
               THEN /\ rf_fs' = [fs1 EXCEPT ![RfAnnotatedPath] = AnnotatedTable]
                    /\ rf' = [r1 EXCEPT !.pc = "train",
                                !.written = @ \cup {RfAnnotatedPath}]
               ELSE /\ rf_fs' = fs1
                    /\ rf' = RfFail(r1, "file already exists")
    /\ UNCHANGED <<hist, others_rf>>

\* Lines 321-330 and 351-352: --train_rf draws a hash that is not in the
\* run list, trains and checkpoints the training table; without --train_rf
\* the hash is the one of the command line.
RF_Train ==
    /\ rf.pc = "train"
    /\ IF ~rf.args.train_rf
       THEN /\ rf' = [rf EXCEPT !.pc = "apply", !.run_hash = rf.args.run_hash]
            /\ UNCHANGED rf_fs
       ELSE \E h \in FreshHashes(GetRfRuns(rf_fs)) :
            LET r1 == [rf EXCEPT !.run_hash = h, !.generated = h,
                          !.rf_runs = GetRfRuns(rf_fs),
                          !.warnings = @ \cup GetRfRunsWarnings(rf_fs),
                          !.reads = @ \cup {RfRunsPath, RfAnnotatedPath}]
                features == TrainFeatures(rf.FEATURES, rf.args)
                ht == TrainingTable(features, rf_fs[RfAnnotatedPath])
                r2 == [r1 EXCEPT !.FEATURES = features,
                          !.rf_model = TrainedModel(features, h)]
                p == GetRf("training", h)
            IN IF ~Exists(rf_fs, RfAnnotatedPath)
               THEN /\ rf' = RfFail(r1, "rf_annotated table not found")
                    /\ UNCHANGED rf_fs
               ELSE IF WriteOk(rf_fs, p, rf.args.overwrite)
               THEN /\ rf_fs' = [rf_fs EXCEPT ![p] = ht]
                    /\ rf' = [r2 EXCEPT !.pc = "add_run", !.ht = ht,
                                !.written = @ \cup {p}]
               ELSE /\ rf' = RfFail(r2, "file already exists")
                    /\ UNCHANGED rf_fs
    /\ UNCHANGED <<hist, others_rf>>

\* Lines 332-344: add the run to the loaded run list and write the list.
RF_AddRun ==
    /\ rf.pc = "add_run"
    /\ LET runs == [h \in DOMAIN rf.rf_runs \cup {rf.run_hash} |->
                      IF h = rf.run_hash
                      THEN GetRunData(rf.args, rf.ht.features)
                      ELSE rf.rf_runs[h]]
       IN /\ rf' = [rf EXCEPT !.pc = "save_model", !.rf_runs = runs,
                       !.written = @ \cup {RfRunsPath}]
          /\ rf_fs' = [rf_fs EXCEPT ![RfRunsPath] =
                          [kind |-> "runs", runs |-> runs]]
    /\ UNCHANGED <<hist, others_rf>>

\* Lines 346-349: save_model.
RF_SaveModel ==
    /\ rf.pc = "save_model"
    /\ LET p == GetRf("model", rf.run_hash)
       IN IF WriteOk(rf_fs, p, rf.args.overwrite)
          THEN /\ rf_fs' = [rf_fs EXCEPT ![p] = rf.rf_model]
               /\ rf' = [rf EXCEPT !.pc = "apply", !.written = @ \cup {p}]
          ELSE /\ rf' = RfFail(rf, "file already exists")
               /\ UNCHANGED rf_fs
    /\ UNCHANGED <<hist, others_rf>>

\* Lines 354-370: --apply_rf loads the model and the training table of
\* run_hash, applies the model and checkpoints the result.
RF_Apply ==
    /\ rf.pc = "apply"
    /\ IF ~rf.args.apply_rf
       THEN /\ rf' = [rf EXCEPT !.pc = "done"]
            /\ UNCHANGED rf_fs
       ELSE LET h == ApplyRunHash(rf)
                pm == GetRf("model", h)
                pt == GetRf("training", h)
                pr == GetRf("rf_result", h)
                r1 == [rf EXCEPT !.reads = @ \cup {pm}]
                r2 == [r1 EXCEPT !.reads = @ \cup {pt},
                          !.rf_model = rf_fs[pm]]
                res == ApplyRfResult(rf_fs, h)
            IN IF ~Exists(rf_fs, pm)
               THEN /\ rf' = RfFail(r1, "model not found")
                    /\ UNCHANGED rf_fs
               ELSE IF ~Exists(rf_fs, pt)
               THEN /\ rf' = RfFail(r2, "training table not found")
                    /\ UNCHANGED rf_fs
               ELSE IF WriteOk(rf_fs, pr, rf.args.overwrite)
               THEN /\ rf_fs' = [rf_fs EXCEPT ![pr] = res]
                    /\ rf' = [r2 EXCEPT !.pc = "done", !.ht = res,
                                !.written = @ \cup {pr}]
               ELSE /\ rf' = RfFail([r2 EXCEPT !.ht = res], "file already exists")
                    /\ UNCHANGED rf_fs
    /\ UNCHANGED <<hist, others_rf>>

\* The step main has reached fails in the engine or the process is stopped
\* (an I/O error, a lost cluster): main ends there, the step has no effect.
RF_Abort ==
    /\ rf.pc \in {"main", "annotate", "train", "add_run", "save_model", "apply"}
    /\ rf' = [rf EXCEPT !.pc = "aborted", !.message = "failed at " \o rf.pc]
    /\ UNCHANGED <<rf_fs, hist, others_rf>>

\* The process ends (main returned, an exception, or sys.exit).
RF_Exit ==
    /\ rf.pc \in {"done", "error", "aborted", "exited"}
    /\ rf' = RfIdle
    /\ UNCHANGED <<rf_fs, hist, others_rf>>

\* ---- random_forest.py --train_rf: two processes --------------------------

\* Lines 476-492, 303 and 321-325: process p starts with --train_rf, draws
\* its hash and loads the run list.
TR_Load(p, overwrite) ==
    /\ tr[p].pc = "idle"
    /\ \E h \in FreshHashes(GetRfRuns(rf_fs)) :
          tr' = [tr EXCEPT ![p] =
                    [@ EXCEPT !.pc = "train", !.args = TrainArgs(overwrite),
                        !.run_hash = h, !.rf_runs = GetRfRuns(rf_fs),
                        !.early = \A q \in TrainProcs \ {p} :
                                     tr[q].pc \in {"idle", "train", "add_run"}]]
    /\ UNCHANGED <<rf_fs, others_tr>>

\* Lines 327-330: train_rf and the checkpoint of the training table.
TR_Train(p) ==
    /\ tr[p].pc = "train"
    /\ LET features == TrainFeatures(FEATURES_INITIAL, tr[p].args)
           ht == TrainingTable(features, rf_fs[RfAnnotatedPath])
           path == GetRf("training", tr[p].run_hash)
       IN IF ~Exists(rf_fs, RfAnnotatedPath)
          THEN /\ tr' = [tr EXCEPT ![p] =
                            [@ EXCEPT !.pc = "error",
                                !.message = "rf_annotated table not found"]]
               /\ UNCHANGED rf_fs
          ELSE IF WriteOk(rf_fs, path, tr[p].args.overwrite)
          THEN /\ rf_fs' = [rf_fs EXCEPT ![path] = ht]
               /\ tr' = [tr EXCEPT ![p] =
                            [@ EXCEPT !.pc = "add_run", !.ht = ht,
                                !.rf_model =
                                    TrainedModel(features, tr[p].run_hash)]]
          ELSE /\ tr' = [tr EXCEPT ![p] =
                            [@ EXCEPT !.pc = "error",
                                !.message = "file already exists"]]
               /\ UNCHANGED rf_fs
    /\ UNCHANGED others_tr

\* Lines 332-344: the run added to the list p loaded, and the list written.
TR_AddRun(p) ==
    /\ tr[p].pc = "add_run"
    /\ LET runs == [h \in DOMAIN tr[p].rf_runs \cup {tr[p].run_hash} |->
                      IF h = tr[p].run_hash
                      THEN GetRunData(tr[p].args, tr[p].ht.features)
                      ELSE tr[p].rf_runs[h]]
       IN /\ tr' = [tr EXCEPT ![p] =
                        [@ EXCEPT !.pc = "save_model", !.rf_runs = runs]]
          /\ rf_fs' = [rf_fs EXCEPT ![RfRunsPath] =
                          [kind |-> "runs", runs |-> runs]]
    /\ UNCHANGED others_tr

\* Lines 346-349: save_model.
TR_SaveModel(p) ==
    /\ tr[p].pc = "save_model"
    /\ LET path == GetRf("model", tr[p].run_hash)
       IN IF WriteOk(rf_fs, path, tr[p].args.overwrite)
          THEN /\ rf_fs' = [rf_fs EXCEPT ![path] = tr[p].rf_model]
               /\ tr' = [tr EXCEPT ![p] = [@ EXCEPT !.pc = "done"]]
          ELSE /\ tr' = [tr EXCEPT ![p] =
                            [@ EXCEPT !.pc = "error",
                                !.message = "file already exists"]]
               /\ UNCHANGED rf_fs
    /\ UNCHANGED others_tr

\* ---- make_var_annot_hists.py: the process ------------------------------

\* Lines 104-114: parse the arguments and call main (through try_slack when
\* a channel is given).
Hist_Start(first_pass, slack_channel) ==
    /\ hist.pc = "idle"
    /\ rf.pc = "idle"
    /\ hist' = IF slack_channel /\ "try_slack" \notin HistModuleNames
               THEN [hist EXCEPT !.pc = "error", !.first_pass = first_pass,
                       !.slack_channel = slack_channel,
                       !.error = "NameError: try_slack"]
               ELSE [hist EXCEPT !.pc = "main", !.first_pass = first_pass,
                       !.slack_channel = slack_channel]
    /\ UNCHANGED <<rf, rf_fs, others_rf>>

\* Lines 57-101: main.  Line 63 reads the module-level name
\* ANNOTATIONS_HISTS; line 64 stores into the dictionary it names.
Hist_Main ==
    /\ hist.pc = "main"
    /\ hist' = IF "ANNOTATIONS_HISTS" \notin HistModuleNames
               THEN [hist EXCEPT !.pc = "error", !.hl_init = TRUE,
                       !.error = "NameError: ANNOTATIONS_HISTS"]
               ELSE IF hist.first_pass
               THEN [hist EXCEPT !.pc = "done", !.hl_init = TRUE,
                       !.hists_mutated = TRUE, !.printed_minmax = TRUE]
               ELSE [hist EXCEPT !.pc = "done", !.hl_init = TRUE,
                       !.hists_mutated = TRUE,
                       !.json_written = @ \cup {QualHistsJsonPath}]
    /\ UNCHANGED <<rf, rf_fs, others_rf>>

Hist_Exit ==
    /\ hist.pc \in {"done", "error"}
    /\ hist' = HistIdle
    /\ UNCHANGED <<rf, rf_fs, others_rf>>

\* ---- generate_qc_annotations.py: the process ----------------------------

\* Lines 332-350 and 294: parse the arguments, call main, hl.init.
Ann_Start(flags, overwrite) ==
    /\ ann.pc = "idle"
    /\ ann' = [ann EXCEPT !.pc = "main", !.at = NextStage(0, flags),
                  !.flags = flags, !.overwrite = overwrite, !.hl_init = TRUE]
    /\ UNCHANGED <<ann_fs, mt, others_ann>>

\* Lines 296-329: the selected stage main has reached.
Ann_Stage ==
    /\ ann.pc = "main"
    /\ ann.at \in 1..Len(AnnStages)
    /\ LET stage == AnnStages[ann.at]
           r == RunStage(stage, ann_fs, mt, ann.overwrite)
           a1 == [ann EXCEPT !.ran = Append(@, stage),
                     !.had_checkpoint =
                        IF stage \in CheckpointedStages
                           /\ Exists(ann_fs, CheckpointPath(stage))
                        THEN @ \cup {stage} ELSE @,
                     !.read_checkpoint = IF r.read THEN @ \cup {stage} ELSE @]
       IN /\ ann_fs' = r.fs
          /\ ann' = IF r.ok
                    THEN [a1 EXCEPT !.at = NextStage(ann.at, ann.flags),
                            !.completed = @ \cup {stage}]
                    ELSE [a1 EXCEPT !.pc = "error"]
    /\ UNCHANGED <<mt, others_ann>>

\* Line 329: main returns.
Ann_Return ==
    /\ ann.pc = "main"
    /\ ann.at = Len(AnnStages) + 1
    /\ ann' = [ann EXCEPT !.pc = "done"]
    /\ UNCHANGED <<ann_fs, mt, others_ann>>

\* The process ends.
Ann_Exit ==
    /\ ann.pc \in {"done", "error"}
    /\ ann' = AnnIdle
    /\ UNCHANGED <<ann_fs, mt, others_ann>>

\* Between invocations the input matrix table is replaced by a new version.
MT_Update ==
    /\ ann.pc = "idle"
    /\ mt < MaxVersion
    /\ mt' = mt + 1
    /\ UNCHANGED <<ann, ann_fs, others_ann>>

\* ---- sample_qc.py: the process ------------------------------------------

\* Line 985 and 723: parse the arguments, call main, hl.init.
SQ_Start(args) ==
    /\ sq.pc = "idle"
    /\ ~jn.called
    /\ sq' = [sq EXCEPT !.pc = "main", !.args = args]
    /\ UNCHANGED <<sq_fs, jn, others_sq>>

\* Lines 728-766: --impute_sex, else --reannotate_sex.  other_failed are the
\* samples that fail a hard filter other tables decide.
SQ_Sex(other_failed) ==
    /\ sq.pc = "main"
    /\ IF sq.args.impute_sex
       THEN LET w == Write(sq_fs, SexPath, ImputedSexTable, sq.args.overwrite)
            IN /\ sq_fs' = w.fs
               /\ sq' = [sq EXCEPT !.pc = IF w.ok THEN "done" ELSE "error",
                            !.branch = "impute_sex",
                            !.written = IF w.ok THEN {SexPath} ELSE {}]
       ELSE IF sq.args.reannotate_sex
       THEN IF ~Exists(sq_fs, SexPath)
            THEN /\ sq' = [sq EXCEPT !.pc = "error",
                              !.branch = "reannotate_sex"]
                 /\ UNCHANGED sq_fs
            ELSE \E computed \in ComputedCutoffs :
                 LET sex_ht == sq_fs[SexPath]
                     fs1 == [sq_fs EXCEPT ![SexCheckpointPath] = sex_ht]
                     hard == HardFilteredSamples(sex_ht, sq.args.min_cov,
                                                 other_failed)
                     fs2 == [fs1 EXCEPT ![HardFilterCheckpointPath] =
                                [kind |-> "hard_filters", s |-> hard]]
                     cut == PloidyCutoffs(sq.args.cutoffs, computed)
                     out == AnnotateSex(ReannotatedTable(sex_ht, hard), cut)
                     w == Write(fs2, SexPath, out, sq.args.overwrite)
                 IN /\ sq_fs' = w.fs
                    /\ sq' = [sq EXCEPT
                                !.pc = IF w.ok THEN "done" ELSE "error",
                                !.branch = "reannotate_sex",
                                !.sex_read = sex_ht,
                                !.computed = computed,
                                !.used = cut,
                                !.written =
                                    {SexCheckpointPath, HardFilterCheckpointPath}
                                    \cup IF w.ok THEN {SexPath} ELSE {}]
       ELSE /\ sq' = [sq EXCEPT !.pc = "done"]
            /\ UNCHANGED sq_fs
    /\ UNCHANGED <<jn, others_sq>>

\* A call of join_tables (generate_metadata, lines 528-686).
SQ_JoinTables(left_ht, right_ht, how) ==
    /\ sq.pc = "idle"
    /\ ~jn.called
    /\ jn' = JoinTables(left_ht, right_ht, how)
    /\ UNCHANGED <<sq, sq_fs, others_sq>>

\* ---- sample_qc.py: assign_pops ------------------------------------------

\* assign_population_pcs on the labels training_pop: the populations pop it
\* assigns, or the exception of a fit that has no labelled sample and
\* fails.
AP_Assign(a, training_pop, training_pop_all, pop, fit_fails) ==
    IF Labelled(training_pop) = {} /\ fit_fails
    THEN [a EXCEPT !.pc = "error", !.training_pop = training_pop,
            !.training_pop_all = training_pop_all]
    ELSE [a EXCEPT !.pc = "loop", !.training_pop = training_pop,
            !.training_pop_all = training_pop_all, !.pop = pop,
            !.n_mislabeled_samples =
                Cardinality(Mislabeled(training_pop, pop))]

\* Lines 278-325: the training labels, the first fit, the first count.
AP_Start(training_pop_all, withheld, max_mislabeled, pop, fit_fails) ==
    /\ ap.pc = "idle"
    /\ LET training_pop == Withhold(training_pop_all, withheld)
       IN /\ pop \in Predictions(training_pop)
          /\ ap' = AP_Assign(
                      [ap EXCEPT
                          !.max_mislabeled_training_samples = max_mislabeled,
                          !.known_pop_removal_iter = 1,
                          !.labelled_at_start =
                              Cardinality(Labelled(training_pop))],
                      training_pop, training_pop_all, pop, fit_fails)
    /\ UNCHANGED others_ap

\* Lines 326-357: one pass of the while loop.
AP_Rerun(pop, fit_fails) ==
    /\ ap.pc = "loop"
    /\ ap.n_mislabeled_samples > ap.max_mislabeled_training_samples
    /\ ap.known_pop_removal_iter < MaxIter
    /\ LET training_pop == RemoveMislabeled(ap.training_pop, ap.pop)
           training_pop_all ==
               RemoveMislabeledAll(ap.training_pop_all, ap.training_pop, ap.pop)
       IN /\ pop \in Predictions(training_pop)
          /\ ap' = AP_Assign(
                      [ap EXCEPT !.known_pop_removal_iter = @ + 1],
                      training_pop, training_pop_all, pop, fit_fails)
    /\ UNCHANGED others_ap

\* Lines 326 and 359-369: the loop condition is false, assign_pops returns.
AP_Finish ==
    /\ ap.pc = "loop"
    /\ ~(ap.n_mislabeled_samples > ap.max_mislabeled_training_samples)
    /\ ap' = [ap EXCEPT !.pc = "done"]
    /\ UNCHANGED others_ap

\* assign_pops has returned or raised: the next call can start.
AP_Return ==
    /\ ap.pc \in {"done", "error"}
    /\ ap' = ApIdle
    /\ UNCHANGED others_ap

\* ---- sample_qc.py: --run_pca ----------------------------------------------

\* main with --run_pca (line 808).
PCA_Start(args) ==
    /\ pca.pc = "idle"
    /\ pca' = [PcaIdle EXCEPT !.pc = "rank", !.args = args]
    /\ UNCHANGED <<pca_fs, others_pca>>

\* Lines 809-811: the rankings, checkpointed with _read_if_exists = not
\* overwrite; rank_ht is the table the checkpoint returns.
PCA_Rank ==
    /\ pca.pc = "rank"
    /\ LET c == Checkpoint(pca_fs, PcaSamplesRankingsPath,
                           ComputeSampleRankings, pca.args.overwrite,
                           ~pca.args.overwrite)
       IN /\ pca' = [pca EXCEPT !.pc = "drop", !.rank_ht = c.ht,
                                !.rank_read = c.read]
          /\ pca_fs' = c.fs
    /\ UNCHANGED others_pca

\* Lines 812-819: samples_to_drop is computed from the relatedness table
\* and rank_ht and checkpointed; the table the checkpoint returns is not
\* assigned, so samples_to_drop stays the computed table.
PCA_Drop ==
    /\ pca.pc = "drop"
    /\ IF ~Exists(pca_fs, RelatednessPath)
       THEN /\ pca' = [pca EXCEPT !.pc = "error"]
            /\ UNCHANGED pca_fs
       ELSE LET samples_to_drop ==
                    ComputeRelatedSamplesToDrop(
                        pca_fs[RelatednessPath], pca.rank_ht,
                        pca.args.second_degree_kin_cutoff,
                        pca.rank_ht.filtered)
                c == Checkpoint(pca_fs, PcaRelatedSamplesToDropPath,
                                samples_to_drop, pca.args.overwrite,
                                ~pca.args.overwrite)
            IN /\ pca' = [pca EXCEPT !.pc = "run_pca",
                                     !.samples_to_drop = samples_to_drop,
                                     !.drop_read = c.read]
               /\ pca_fs' = c.fs
    /\ UNCHANGED others_pca

\* Lines 820-824: run_pca on samples_to_drop, then the scores and the
\* loadings are written and the eigenvalues file is opened for writing.
PCA_RunPca ==
    /\ pca.pc = "run_pca"
    /\ LET r == RunPca(pca.args.include_unreleasable_samples,
                       pca.samples_to_drop, pca_fs[ProjectMetaPath])
           scores == Write(pca_fs,
                           AncestryPcaScoresPath(
                               pca.args.include_unreleasable_samples),
                           [kind |-> "scores", s |-> r.pca_samples],
                           pca.args.overwrite)
           loadings == Write(scores.fs,
                             AncestryPcaLoadingsPath(
                                 pca.args.include_unreleasable_samples),
                             [kind |-> "loadings", s |-> r.pca_samples],
                             pca.args.overwrite)
       IN IF scores.ok /\ loadings.ok
          THEN /\ pca' = [pca EXCEPT !.pc = "done", !.pca = r]
               /\ pca_fs' = [loadings.fs EXCEPT ![EigenvaluesPath] =
                                [kind |-> "eigenvalues", s |-> r.pca_samples]]
          ELSE /\ pca' = [pca EXCEPT !.pc = "error", !.pca = r]
               /\ pca_fs' = IF scores.ok THEN scores.fs ELSE pca_fs
    /\ UNCHANGED others_pca

\* The invocation has ended; the persisted tables stay.
PCA_Exit ==
    /\ pca.pc \in {"done", "error"}
    /\ pca' = PcaIdle
    /\ UNCHANGED <<pca_fs, others_pca>>

\* ---- calls of single functions -----------------------------------------

\* The caller takes the result: the next call can start.
Call_Return ==
    /\ call.fn # "none"
    /\ call' = NoCall
    /\ UNCHANGED others_call

\* compute_hard_filters(cov_threshold, include_sex_filter) over the columns
\* of the callset (lines 735 and 769).
Call_ComputeHardFilters(cols, cov_threshold, include_sex_filter) ==
    /\ call.fn = "none"
    /\ call' = [fn |-> "compute_hard_filters", cols |-> cols,
                cov_threshold |-> cov_threshold,
                include_sex_filter |-> include_sex_filter,
                hard_filters |->
                    [s \in DOMAIN cols |->
                        HardFilterConditions(cols[s], cov_threshold,
                                             include_sex_filter)],
                ht |-> ComputeHardFilters(cols, cov_threshold,
                                          include_sex_filter)]
    /\ UNCHANGED others_call

\* get_relatedness_set_ht(relatedness_ht).
Call_GetRelatednessSetHt(relatedness_ht) ==
    /\ call.fn = "none"
    /\ call' = [fn |-> "get_relatedness_set_ht",
                relatedness_ht |-> relatedness_ht,
                ht |-> GetRelatednessSetHt(relatedness_ht)]
    /\ UNCHANGED others_call

\* get_relationship_filter_expr(hard_filtered_expr, relationship,
\* relationship_set), evaluated for one row.
Call_GetRelationshipFilterExpr(hard_filtered_expr, relationship, relationship_set) ==
    /\ call.fn = "none"
    /\ call' = [fn |-> "get_relationship_filter_expr",
                hard_filtered_expr |-> hard_filtered_expr,
                relationship |-> relationship,
                relationship_set |-> relationship_set,
                value |-> GetRelationshipFilterExpr(hard_filtered_expr,
                                                    relationship,
                                                    relationship_set)]
    /\ UNCHANGED others_call

\* generate_metadata over the tables the earlier stages wrote.
Call_GenerateMetadata(hard_filtered_ht, pca_drop, release_drop, relatedness) ==
    /\ call.fn = "none"
    /\ call' = [fn |-> "generate_metadata",
                hard_filtered_samples |-> hard_filtered_ht,
                pca_related_samples_to_drop |-> pca_drop,
                release_related_samples_to_drop |-> release_drop,
                relatedness |-> relatedness,
                ht |-> GenerateMetadata(hard_filtered_ht, pca_drop,
                                        release_drop, relatedness)]
    /\ UNCHANGED others_call

\* train_rf labelling one variant of the annotated table (lines 190-212).
Call_TrainRfLabels(ht, args) ==
    /\ call.fn = "none"
    /\ call' = [fn |-> "train_rf", ht |-> ht, args |-> args,
                labels |-> TrainRfLabels(ht, args)]
    /\ UNCHANGED others_call

\* Before any invocation: no process runs and storage holds only the
\* inputs.
Init ==
    /\ rf = RfIdle
    /\ rf_fs = [p \in RFPaths |-> Absent]
    /\ hist = HistIdle
    /\ ann = AnnIdle
    /\ ann_fs = [p \in AnnPaths |-> Absent]
    /\ mt = 1
    /\ sq = SqIdle
    /\ sq_fs = [p \in SqPaths |-> Absent]
    /\ jn = JnIdle
    /\ call = NoCall
    /\ tr = TrIdle
    /\ ap = ApIdle
    /\ pca = PcaIdle
    /\ pca_fs = [p \in PcaPaths |-> Absent]

\* ---- Specification of the annotation script: re-runs of the checkpointed
\* stages over a changing input ------------------------------------------

NextAnnot ==
    \/ \E flags \in SUBSET RerunFlags, ow \in BOOLEAN : Ann_Start(flags, ow)
    \/ Ann_Stage
    \/ Ann_Return
    \/ Ann_Exit
    \/ MT_Update

SpecAnnot == Init /\ [][NextAnnot]_vars

\* ---- Specification of the annotation script: invocations one after
\* another with any set of stage flags ---------------------------------------

NextAnnotOrder ==
    \/ \E flags \in SUBSET AnnStageSet, ow \in BOOLEAN : Ann_Start(flags, ow)
    \/ Ann_Stage
    \/ Ann_Return
    \/ Ann_Exit

SpecAnnotOrder == Init /\ [][NextAnnotOrder]_vars

\* ---- Specification of the variant-QC scripts ----------------------------

Next ==
    \/ \E args \in RFArgs : RF_Start(args)
    \/ RF_MainInit
    \/ RF_Annotate
    \/ RF_Train
    \/ RF_AddRun
    \/ RF_SaveModel
    \/ RF_Apply
    \/ RF_Exit
    \/ \E fp \in BOOLEAN, sc \in BOOLEAN : Hist_Start(fp, sc)
    \/ Hist_Main
    \/ Hist_Exit

Spec == Init /\ [][Next]_vars

\* ---- Specification of the variant-QC scripts with steps that can fail ---

NextFail ==
    \/ Next
    \/ RF_Abort

SpecFail == Init /\ [][NextFail]_vars


\* ---- Specification of the sample-QC script: one invocation over any sex
\* table an earlier --impute_sex can have left, and calls of join_tables ---

InitSampleQC ==
    /\ rf = RfIdle
    /\ rf_fs = [p \in RFPaths |-> Absent]
    /\ hist = HistIdle
    /\ ann = AnnIdle
    /\ ann_fs = [p \in AnnPaths |-> Absent]
    /\ mt = 1
    /\ sq = SqIdle
    /\ \E t \in SexTables \cup {Absent} :
          sq_fs = [p \in SqPaths |-> IF p = SexPath THEN t ELSE Absent]
    /\ jn = JnIdle
    /\ call = NoCall
    /\ tr = TrIdle
    /\ ap = ApIdle
    /\ pca = PcaIdle
    /\ pca_fs = [p \in PcaPaths |-> Absent]

NextSampleQC ==
    \/ \E args \in SQArgs : SQ_Start(args)
    \/ \E other_failed \in SUBSET Samples : SQ_Sex(other_failed)
    \/ \E l \in KeyedTables, r \in KeyedTables, how \in JoinTypes :
          SQ_JoinTables(l, r, how)

SpecSampleQC == InitSampleQC /\ [][NextSampleQC]_vars

\* ---- Specification of the functions called one at a time ----------------

NextCalls ==
    \/ Call_Return
    \/ \E cols \in [Samples -> HardFilterInputs], t \in MinCovValues,
          isf \in BOOLEAN : Call_ComputeHardFilters(cols, t, isf)
    \/ \E relatedness_ht \in RelatednessTables(RelatedSamples) :
          Call_GetRelatednessSetHt(relatedness_ht)
    \/ \E hf \in HlBool, rel \in FilterRelationships, set \in RelationshipSets :
          Call_GetRelationshipFilterExpr(hf, rel, set)
    \/ \E hf \in HardFilteredTables, pca_drop \in DropTables, rel \in DropTables,
          relatedness \in RelatednessTables(Samples) :
          Call_GenerateMetadata(hf, pca_drop, rel, relatedness)
    \/ \E ht \in LabelInputs, args \in LabelArgs : Call_TrainRfLabels(ht, args)

SpecCalls == Init /\ [][NextCalls]_vars

\* ---- Specification of overlapping --train_rf invocations ----------------

\* Storage holds the annotated table, with or without a run list of one run
\* trained earlier; no invocation has started.
InitOverlap ==
    /\ rf = RfIdle
    /\ \E listed \in SUBSET {HashPool[1]} :
          rf_fs = [p \in RFPaths |->
                     IF p = RfAnnotatedPath THEN AnnotatedTable
                     ELSE IF p = RfRunsPath /\ listed # {}
                     THEN [kind |-> "runs",
                           runs |-> [h \in listed |->
                                       GetRunData(RfNoArgs, FEATURES_INITIAL)]]
                     ELSE IF p \in {"training"} \X listed
                     THEN TrainingTable(FEATURES_INITIAL, AnnotatedTable)
                     ELSE IF p \in {"model"} \X listed
                     THEN TrainedModel(FEATURES_INITIAL, p[2])
                     ELSE Absent]
    /\ hist = HistIdle
    /\ ann = AnnIdle
    /\ ann_fs = [p \in AnnPaths |-> Absent]
    /\ mt = 1
    /\ sq = SqIdle
    /\ sq_fs = [p \in SqPaths |-> Absent]
    /\ jn = JnIdle
    /\ call = NoCall
    /\ tr = TrIdle
    /\ ap = ApIdle
    /\ pca = PcaIdle
    /\ pca_fs = [p \in PcaPaths |-> Absent]

NextOverlap ==
    \/ \E p \in TrainProcs, ow \in BOOLEAN : TR_Load(p, ow)
    \/ \E p \in TrainProcs : TR_Train(p)
    \/ \E p \in TrainProcs : TR_AddRun(p)
    \/ \E p \in TrainProcs : TR_SaveModel(p)

SpecOverlap == InitOverlap /\ [][NextOverlap]_vars

\* ---- Specification of the re-training loop of assign_pops ---------------

PopPredictions == [Samples -> Pops \cup {Oth}]

AP_Step ==
    \/ \E pop \in PopPredictions, fit_fails \in BOOLEAN :
          AP_Rerun(pop, fit_fails)
    \/ AP_Finish

NextAssignPops ==
    \/ \E training_pop_all \in [Samples -> Pops \cup {NoPop}],
          withheld \in SUBSET Samples, m \in MaxMislabeledValues,
          pop \in PopPredictions, fit_fails \in BOOLEAN :
          AP_Start(training_pop_all, withheld, m, pop, fit_fails)
    \/ AP_Step
    \/ AP_Return

\* The loop is code that runs: a pass or the exit that can be taken is
\* taken.
SpecAssignPops == Init /\ [][NextAssignPops]_vars /\ WF_vars(AP_Step)

\* ---- Specification of --run_pca: invocations one after another over any
\* relatedness table and project metadata ----------------------------------

\* The relatedness tables --run_pc_relate may have written (line 806): a
\* kinship for some of the pairs of samples.
PcRelateTables ==
    {[kind |-> "relatedness", kin |-> kin] :
        kin \in UNION {[P -> KinValues] : P \in SUBSET Pairs(PcaSamples)}}

InitRunPca ==
    /\ rf = RfIdle
    /\ rf_fs = [p \in RFPaths |-> Absent]
    /\ hist = HistIdle
    /\ ann = AnnIdle
    /\ ann_fs = [p \in AnnPaths |-> Absent]
    /\ mt = 1
    /\ sq = SqIdle
    /\ sq_fs = [p \in SqPaths |-> Absent]
    /\ jn = JnIdle
    /\ call = NoCall
    /\ tr = TrIdle
    /\ ap = ApIdle
    /\ pca = PcaIdle
    /\ \E relatedness \in PcRelateTables \cup {Absent},
          unreleasable \in SUBSET PcaSamples :
          pca_fs = [p \in PcaPaths |->
                      IF p = RelatednessPath
                      THEN relatedness
                      ELSE IF p = ProjectMetaPath
                      THEN [kind |-> "project_meta",
                            unreleasable |-> unreleasable]
                      ELSE Absent]

NextRunPca ==
    \/ \E args \in PcaArgs : PCA_Start(args)
    \/ PCA_Rank
    \/ PCA_Drop
    \/ PCA_RunPca
    \/ PCA_Exit

SpecRunPca == InitRunPca /\ [][NextRunPca]_vars

\* ------------------------------------------------------------------------
\* Properties of random_forest.py and make_var_annot_hists.py (under Spec)
\* ------------------------------------------------------------------------

\* C1: an invocation with --apply_rf, no --run_hash and no --train_rf ends
\* in sys.exit with the error message before main is called: the engine is
\* not initialised, nothing is read and nothing is written.
C1_ApplyWithoutHashExits ==
    (rf.pc # "idle" /\ rf.args.apply_rf /\ rf.args.run_hash = None
        /\ ~rf.args.train_rf)
    => /\ rf.pc = "exited"
       /\ rf.message = "Error: --run_hash is required when running --apply_rf without running --train_rf too."
       /\ ~rf.hl_init
       /\ rf.reads = {}
       /\ rf.written = {}
       /\ rf.rf_model = Absent /\ rf.ht = Absent

C1_Witness ==
    /\ rf.pc = "exited"
    /\ rf.args.apply_rf /\ rf.args.run_hash = None /\ ~rf.args.train_rf
    /\ Exists(rf_fs, RfRunsPath)

\* C2 (as claimed): whenever --run_hash and --train_rf are both given, the
\* invocation ends in sys.exit before main: no hash is generated, nothing is
\* trained, no run-list entry is added and no model is saved.
C2_HashAndTrainExits ==
    (rf.pc # "idle" /\ rf.args.run_hash # None /\ rf.args.train_rf)
    => /\ rf.pc = "exited"
       /\ rf.generated = None
       /\ rf.written = {}

\* C5 (as claimed): no invocation changes a module-level value: FEATURES
\* keeps its ten features and the histogram dictionary is not stored into.
C5_NoGlobalMutation ==
    /\ rf.FEATURES = FEATURES_INITIAL
    /\ ~hist.hists_mutated

\* C6: with --train_rf and --apply_rf together the apply step starts only
\* once the model of the generated hash is saved and then does not fail; the
\* result it persists carries the generated hash as rf_hash and is the
\* table computed from the model and training table stored under that hash,
\* which is what any later '--apply_rf --run_hash <hash>' computes: every
\* persisted rf_result equals the result of applying, now, the stored model
\* of its hash to the stored training table of its hash.
C6_TrainThenApply ==
    /\ (rf.args.train_rf /\ rf.pc = "apply")
       => /\ rf.run_hash = rf.generated
          /\ rf_fs[GetRf("model", rf.generated)]
                = TrainedModel(rf.FEATURES, rf.generated)
          /\ Exists(rf_fs, GetRf("training", rf.generated))
    /\ (rf.args.train_rf /\ rf.args.apply_rf /\ rf.pc = "error")
       => ~Exists(rf_fs, GetRf("model", rf.generated))
    /\ (rf.args.train_rf /\ rf.args.apply_rf /\ rf.pc = "done")
       => /\ rf.generated \in Hashes
          /\ rf.ht.rf_hash = rf.generated
          /\ rf_fs[GetRf("rf_result", rf.generated)] = rf.ht
          /\ rf.ht = ApplyRfResult(rf_fs, rf.generated)
    /\ \A h \in RunHashArgs :
          Exists(rf_fs, GetRf("rf_result", h))
          => rf_fs[GetRf("rf_result", h)] = ApplyRfResult(rf_fs, h)

\* A later separate invocation --apply_rf --run_hash <hash> --overwrite has
\* completed on a run that an earlier invocation trained with another
\* feature list than the default.
C6_Witness ==
    /\ rf.pc = "done"
    /\ ~rf.args.train_rf /\ rf.args.apply_rf
    /\ rf.args.overwrite
    /\ rf.ht.training.features # FEATURES_INITIAL
    /\ \E h \in Hashes \ {rf.run_hash} : Exists(rf_fs, GetRf("rf_result", h))

\* C7 (as claimed): a completed invocation with --finalize has written an
\* RF model.
C7_FinalizeWritesModel ==
    (rf.pc = "done" /\ rf.args.finalize)
    => \E p \in rf.written : p[1] \in {"model", "final_model"}

\* C8 (as claimed): main with --first_pass completes having printed the
\* min/max and written no JSON; without it main completes and has written
\* exactly the JSON at qual_hists_json_path(CURRENT_RELEASE).
C8_HistMainCompletes ==
    (hist.pc \in {"done", "error"} /\ ~hist.slack_channel)
    => /\ hist.pc = "done"
       /\ IF hist.first_pass
          THEN hist.printed_minmax /\ hist.json_written = {}
          ELSE hist.json_written = {QualHistsJsonPath}

\* C15: get_rf_runs returns the content of the run-list file when the file
\* exists and the empty dictionary, with a warning and no exception, when it
\* does not: a --train_rf that finds no file goes on from an empty run list.
C15_GetRfRuns ==
    (rf.pc = "add_run")
    => IF Exists(rf_fs, RfRunsPath)
       THEN /\ rf.rf_runs = rf_fs[RfRunsPath].runs
            /\ RunsFileNotFound \notin rf.warnings
       ELSE /\ rf.rf_runs = EmptyRuns
            /\ RunsFileNotFound \in rf.warnings

\* The first --train_rf (no run-list file yet) and, after it, a --train_rf
\* that loads a list with an entry are both reached; this is the first.
C15_Witness ==
    /\ rf.pc = "add_run"
    /\ ~Exists(rf_fs, RfRunsPath)
    /\ rf.rf_runs = EmptyRuns
    /\ rf.warnings = {RunsFileNotFound}

\* C17: the hash --train_rf goes on with is no key of the run list it
\* loaded; the list it writes back holds every loaded entry unchanged and
\* exactly one new entry, under the new hash; no step of any invocation
\* replaces or removes a recorded run.
C17_RunsOnlyAdded ==
    [][LET old == GetRfRuns(rf_fs)
           new == GetRfRuns(rf_fs')
       IN /\ \A h \in DOMAIN old : h \in DOMAIN new /\ new[h] = old[h]
          /\ new # old => rf.pc = "add_run"
          /\ (rf.pc = "add_run" /\ rf'.pc = "save_model")
             => /\ rf.run_hash \notin DOMAIN rf.rf_runs
                /\ rf.rf_runs = old
                /\ DOMAIN new = DOMAIN old \cup {rf.run_hash}
                /\ Cardinality(DOMAIN new) = Cardinality(DOMAIN old) + 1]_vars

\* A second run has been added to a list that held an earlier run.
C17_Witness ==
    /\ rf.pc = "save_model"
    /\ Cardinality(DOMAIN rf_fs[RfRunsPath].runs) = 2
    /\ rf.run_hash \in DOMAIN rf_fs[RfRunsPath].runs
    /\ rf_fs[RfRunsPath].runs = rf.rf_runs

\* C19 (as claimed; under SpecFail, where a step of main can fail), for the
\* states in which no invocation is running:
\* every run hash of the persisted run list has its training table and its
\* saved model on storage.
C19_ListedRunsApplicable ==
    rf.pc \in {"idle", "done", "error", "aborted", "exited"}
    => \A h \in DOMAIN GetRfRuns(rf_fs) :
          /\ Exists(rf_fs, GetRf("training", h))
          /\ Exists(rf_fs, GetRf("model", h))

\* ------------------------------------------------------------------------
\* Properties of overlapping --train_rf invocations (under SpecOverlap)
\* ------------------------------------------------------------------------

\* C18 (as claimed): when two --train_rf invocations overlap, each loading
\* the run list before the other writes it, then once both have finished
\* the run-list file has an entry for each of the two runs.
C18_BothRunsListed ==
    (\A p \in TrainProcs : tr[p].pc = "done" /\ tr[p].early)
    => \A p \in TrainProcs : tr[p].run_hash \in DOMAIN GetRfRuns(rf_fs)

\* ------------------------------------------------------------------------
\* Properties of generate_qc_annotations.py (under SpecAnnot)
\* ------------------------------------------------------------------------

\* C3 (as claimed): when an invocation without --overwrite starts a
\* checkpointed stage whose checkpoint exists, the stage reads the
\* checkpoint, completes, and the table at its output path is the table of
\* the checkpoint, which is the one the first run wrote.
C3_RerunIdempotent ==
    \A st \in CheckpointedStages :
        (ann.pc \in {"done", "error"} /\ ~ann.overwrite
            /\ st \in ann.had_checkpoint)
        => /\ st \in ann.read_checkpoint
           /\ st \in ann.completed
           /\ ann_fs[OutputPath(st)] = ann_fs[CheckpointPath(st)]

\* ------------------------------------------------------------------------
\* Properties of sample_qc.py (under SpecSampleQC)
\* ------------------------------------------------------------------------

\* C4: join_tables logs the warning exactly when the two tables' row counts
\* differ, never raises, and returns the join of the two tables for the
\* given join type in either case.
C4_JoinWarnsIffCountsDiffer ==
    jn.called
    => /\ ("Sample counts in left and right tables do not match!"
              \in jn.warnings)
          <=> (Cardinality(jn.left) # Cardinality(jn.right))
       /\ ~jn.raised
       /\ jn.info = <<Cardinality(jn.left), Cardinality(jn.right)>>
       /\ jn.how = "inner" => jn.result = jn.left \cap jn.right
       /\ jn.how = "left" => jn.result = jn.left
       /\ jn.how = "right" => jn.result = jn.right
       /\ jn.how = "outer" => jn.result = jn.left \cup jn.right

C4_Witness ==
    /\ jn.called
    /\ Cardinality(jn.left) < Cardinality(jn.right)
    /\ jn.warnings # {}
    /\ jn.how = "outer"
    /\ jn.result = Samples

\* C9 (as claimed): in --reannotate_sex every cutoff used for karyotyping
\* and stored in the globals is the command-line value whenever one is
\* given (0.0 included), and the computed cutoff only when none is given.
C9_SuppliedCutoffUsed ==
    (sq.branch = "reannotate_sex" /\ sq.sex_read # Absent)
    => /\ \A c \in CutoffNames :
            sq.used[c] = IF sq.args.cutoffs[c] # NoFloat
                         THEN sq.args.cutoffs[c]
                         ELSE sq.computed[c]
       /\ sq.pc = "done"
          => \A g \in CutoffGlobalNames :
                sq_fs[SexPath].globals[g] = CutoffGlobals(sq.used)[g]

\* C10: the table --reannotate_sex leaves at the sex path has the samples of
\* the table it read and, for every sample, the same imputation metrics
\* (chrX_ploidy, chrY_ploidy, f_stat, chr20_mean_dp); rows differ at most in
\* the get_sex_expr fields and globals at most in the two cutoff structs.
C10_ReannotateKeepsMetrics ==
    (sq.branch = "reannotate_sex" /\ sq.sex_read # Absent)
    => LET old == sq.sex_read
           new == sq_fs[SexPath]
       IN /\ DOMAIN new.rows = DOMAIN old.rows
          /\ \A s \in DOMAIN old.rows :
                /\ DOMAIN new.rows[s] = DOMAIN old.rows[s]
                /\ \A f \in DOMAIN old.rows[s] \ SexExprFields :
                      new.rows[s][f] = old.rows[s][f]
                /\ MetricFields \subseteq DOMAIN new.rows[s] \ SexExprFields
          /\ DOMAIN new.globals = DOMAIN old.globals
          /\ \A g \in DOMAIN old.globals \ CutoffGlobalNames :
                new.globals[g] = old.globals[g]

\* A completed --reannotate_sex that changed a karyotype, over a table that
\* holds every sample, one of them hard-filtered for low coverage.
C10_Witness ==
    /\ sq.branch = "reannotate_sex"
    /\ sq.pc = "done"
    /\ DOMAIN sq.sex_read.rows = Samples
    /\ \E s \in Samples : sq.sex_read.rows[s].chr20_mean_dp < sq.args.min_cov
    /\ \E s \in Samples :
          sq_fs[SexPath].rows[s].sex_karyotype
              # sq.sex_read.rows[s].sex_karyotype
    /\ sq_fs[SexPath].globals # sq.sex_read.globals

\* ------------------------------------------------------------------------
\* Properties of single functions (under SpecCalls)
\* ------------------------------------------------------------------------

\* C11: compute_hard_filters puts low_coverage in a sample's hard_filters
\* exactly when its chr20_mean_dp is strictly below cov_threshold; a sample
\* whose coverage equals the threshold is not flagged low_coverage.
C11_LowCoverageStrictlyBelow ==
    call.fn = "compute_hard_filters"
    => \A s \in DOMAIN call.cols :
          LET dp == call.cols[s].chr20_mean_dp
              hard_filters == IF s \in DOMAIN call.ht THEN call.ht[s] ELSE {}
          IN /\ ("low_coverage" \in hard_filters)
                    <=> (dp # NoFloat /\ dp < call.cov_threshold)
             /\ dp = call.cov_threshold => "low_coverage" \notin hard_filters

\* C21: the table compute_hard_filters returns contains a sample exactly
\* when at least one of its hard-filter conditions is true; every row has a
\* non-empty hard_filters set holding exactly the names of the conditions
\* true for the sample; with include_sex_filter = False no row carries
\* ambiguous_sex or sex_aneuploidy.
C21_TableHoldsFailingSamples ==
    call.fn = "compute_hard_filters"
    => /\ \A s \in DOMAIN call.cols :
            (s \in DOMAIN call.ht)
                <=> (\E f \in DOMAIN call.hard_filters[s] :
                        call.hard_filters[s][f] = "T")
       /\ \A s \in DOMAIN call.ht :
            /\ call.ht[s] # {}
            /\ call.ht[s] = {f \in DOMAIN call.hard_filters[s] :
                                call.hard_filters[s][f] = "T"}
            /\ ~call.include_sex_filter
                  => call.ht[s] \cap {"ambiguous_sex", "sex_aneuploidy"} = {}

\* C12: get_relationship_filter_expr is missing for every hard-filtered
\* sample, whatever its relationship set; for a sample that is not
\* hard-filtered it is true exactly when the set is defined and contains the
\* relationship, and false otherwise (an undefined set included).
C12_RelationshipFilterExpr ==
    call.fn = "get_relationship_filter_expr"
    => /\ call.hard_filtered_expr = "T" => call.value = "NA"
       /\ call.hard_filtered_expr = "F"
          => /\ call.value \in {"T", "F"}
             /\ call.value = "T"
                <=> /\ call.relationship_set # MissingSet
                    /\ call.relationship \in call.relationship_set

C12_Witness ==
    /\ call.fn = "get_relationship_filter_expr"
    /\ call.hard_filtered_expr = "T"
    /\ call.relationship = SIBLINGS
    /\ call.relationship_set = {SIBLINGS, PARENT_CHILD}
    /\ call.value = "NA"

\* C13: in the metadata table a sample that is not hard-filtered and is in
\* the release related-samples-to-drop table has release_related true, and
\* release_duplicate, release_parent_child or release_sibling true implies
\* release_related true; likewise the all_samples_* flags with the PCA
\* related-samples-to-drop table.  A hard-filtered sample has all eight
\* flags missing.
C13_RelatedFlags ==
    call.fn = "generate_metadata"
    => \A s \in Samples :
          LET f == call.ht[s].sample_filters
          IN IF s \in DOMAIN call.hard_filtered_samples
             THEN \A n \in RelatedFlagNames : f[n] = "NA"
             ELSE /\ \A n \in RelatedFlagNames : f[n] \in {"T", "F"}
                  /\ s \in DOMAIN call.release_related_samples_to_drop
                     => f.release_related = "T"
                  /\ "T" \in {f.release_duplicate, f.release_parent_child,
                              f.release_sibling}
                     => f.release_related = "T"
                  /\ s \in DOMAIN call.pca_related_samples_to_drop
                     => f.all_samples_related = "T"
                  /\ "T" \in {f.all_samples_duplicate,
                              f.all_samples_parent_child, f.all_samples_sibling}
                     => f.all_samples_related = "T"

\* A sample dropped for the release as a sibling but kept for the PCA, next
\* to a hard-filtered sample.
C13_Witness ==
    /\ call.fn = "generate_metadata"
    /\ \E s \in Samples :
          /\ s \notin DOMAIN call.hard_filtered_samples
          /\ s \in DOMAIN call.release_related_samples_to_drop
          /\ s \notin DOMAIN call.pca_related_samples_to_drop
          /\ call.ht[s].sample_filters.release_sibling = "T"
          /\ call.ht[s].sample_filters.release_related = "T"
          /\ call.ht[s].sample_filters.all_samples_related = "F"
    /\ \E s \in DOMAIN call.hard_filtered_samples :
          /\ s \in DOMAIN call.release_related_samples_to_drop
          /\ call.ht[s].sample_filters.release_related = "NA"

\* C14: get_relatedness_set_ht gives every sample the set of the labels
\* other than UNRELATED of the pairs it is a member of: a label of a pair is
\* in the sets of both members, no set contains UNRELATED, and a sample all
\* of whose pairs are UNRELATED (or that is in no pair) has no row.
C14_RelatednessSets ==
    call.fn = "get_relatedness_set_ht"
    => LET ht == call.relatedness_ht
           LabelsOf(s) == {ht[p] : p \in {q \in DOMAIN ht : s \in {q[1], q[2]}}}
                            \ {UNRELATED}
       IN /\ \A s \in RelatedSamples :
                IF LabelsOf(s) = {} THEN s \notin DOMAIN call.ht
                ELSE s \in DOMAIN call.ht /\ call.ht[s] = LabelsOf(s)
          /\ DOMAIN call.ht \subseteq RelatedSamples
          /\ \A p \in DOMAIN ht :
                ht[p] # UNRELATED
                => /\ ht[p] \in call.ht[p[1]]
                   /\ ht[p] \in call.ht[p[2]]
          /\ \A s \in DOMAIN call.ht : UNRELATED \notin call.ht[s]

\* A sample with two related pairs of different labels and a sample whose
\* only pair is UNRELATED.
C14_Witness ==
    /\ call.fn = "get_relatedness_set_ht"
    /\ call.relatedness_ht =
          (<<1, 2>> :> PARENT_CHILD @@ <<2, 3>> :> SIBLINGS)
    /\ call.ht[2] = {PARENT_CHILD, SIBLINGS}
    /\ call.ht[3] = {SIBLINGS}

\* C16: without --vqsr_training, train_rf labels a variant TP exactly when
\* it is in omni or in mills or, unless --no_transmitted_singletons is
\* given, a transmitted singleton; with the flag a variant that is only a
\* transmitted singleton is not TP.  In both cases a variant is FP exactly
\* when fail_hard_filters is true.
C16_TrainingLabels ==
    (call.fn = "train_rf" /\ ~call.args.vqsr_training)
    => /\ call.labels.tp = "T"
          <=> \/ call.ht.omni = "T"
              \/ call.ht.mills = "T"
              \/ /\ ~call.args.no_transmitted_singletons
                 /\ call.ht.transmitted_singleton = "T"
       /\ call.labels.fp = "T" <=> call.ht.fail_hard_filters = "T"

\* A variant that is only a transmitted singleton, labelled with
\* --no_transmitted_singletons.
C16_Witness ==
    /\ call.fn = "train_rf"
    /\ ~call.args.vqsr_training /\ call.args.no_transmitted_singletons
    /\ call.ht.transmitted_singleton = "T"
    /\ call.ht.omni = "F" /\ call.ht.mills = "F"
    /\ call.labels.tp = "F"

\* ------------------------------------------------------------------------
\* Properties of assign_pops (under SpecAssignPops)
\* ------------------------------------------------------------------------

\* C20: with max_mislabeled_training_samples >= 0 the re-training loop of
\* assign_pops terminates, after at most as many re-runs as there are
\* samples with a training label at the start: every re-run removes the
\* training label of at least one sample.
C20_LoopTerminates ==
    /\ [](ap.pc # "idle"
          => /\ ap.max_mislabeled_training_samples >= 0
             /\ ap.known_pop_removal_iter - 1 <= ap.labelled_at_start
             /\ Cardinality(Labelled(ap.training_pop))
                    + (ap.known_pop_removal_iter - 1) <= ap.labelled_at_start)
    /\ (ap.pc = "loop") ~> (ap.pc \in {"done", "error"})

\* The loop has ended after two re-runs, each of which removed one label.
C20_Witness ==
    /\ ap.pc = "done"
    /\ ap.known_pop_removal_iter = 3
    /\ ap.labelled_at_start = 2
    /\ Labelled(ap.training_pop) = {}

\* ------------------------------------------------------------------------
\* Properties of --run_pca (under SpecRunPca)
\* ------------------------------------------------------------------------

\* C22: after --run_pca completes, with or without --overwrite and whether
\* or not earlier checkpoints exist, the table persisted at
\* pca_related_samples_to_drop.path lists exactly the samples that were
\* excluded as related from the PCA computed in that invocation.
C22_PersistedDropMatchesPca ==
    pca.pc = "done"
    => /\ Exists(pca_fs, PcaRelatedSamplesToDropPath)
       /\ pca_fs[PcaRelatedSamplesToDropPath].s
             = pca.pca.related_samples_to_drop

\* ------------------------------------------------------------------------
\* Properties of the stage order of the annotation script (under
\* SpecAnnotOrder)
\* ------------------------------------------------------------------------

\* The order of the stages and the tables a stage reads from another stage,
\* as C23 states them.
C23_FixedOrder ==
    <<"compute_info", "split_info", "export_info_vcf", "generate_allele_data",
      "generate_ac", "generate_fam_stats",
      "export_transmitted_singletons_vcf", "vep">>

C23_Position(stage) ==
    CHOOSE i \in 1..Len(C23_FixedOrder) : C23_FixedOrder[i] = stage

C23_ReadsFrom(stage) ==
    IF stage \in {"split_info", "export_info_vcf"}
    THEN {<<"compute_info", InfoPath>>}
    ELSE IF stage = "export_transmitted_singletons_vcf"
    THEN {<<"generate_ac", QcAcPath>>, <<"generate_fam_stats", FamStatsPath>>}
    ELSE {}

=============================================================================
